---- MODULE Spec2Model ----
(***************************************************************************)
(* A model of the orchestration core of etch (packages/core):              *)
(*   - the capture pipeline: Capturer::start_capture / stop_capture and    *)
(*     the capture worker thread run_capture_loop with its capture         *)
(*     callback and restart_capture (src/capture/mod.rs);                  *)
(*   - the dispatcher: the winit event loop that feeds UserEvents, one at  *)
(*     a time, to Application::handle_user_event (src/main.rs, src/lib.rs).*)
(*                                                                         *)
(*   - the IPC channel: CoreSocket with its server task run_server, the    *)
(*     reader task of a connection and handle_message (src/socket/mod.rs). *)
(*                                                                         *)
(* SpecCapture runs the capturer with its worker threads, SpecDispatch     *)
(* runs the event loop with its producers, SpecSocket runs the IPC server  *)
(* with its clients and SpecTranslate runs handle_message over the         *)
(* documented inbound messages.                                            *)
(*                                                                         *)
(*   - the annotation store: AnnotationStore (src/annotation/mod.rs).      *)
(*                                                                         *)
(*   - source enumeration: Capturer::enumerate_sources with one           *)
(*     capture_thumbnail_thread per source (src/capture/mod.rs).           *)
(*                                                                         *)
(*   - room join: the threads of Application::handle_join_room with       *)
(*     RoomService::new and RoomService::connect (src/lib.rs,              *)
(*     src/room/mod.rs);                                                   *)
(*   - screen sharing: handle_start_screen_share, handle_stop_screen_share *)
(*     and the ScreenShareStateChanged arm, on top of the capture pipeline *)
(*     (src/lib.rs).                                                       *)
(*                                                                         *)
(* SpecStore applies the store's operations in every order; SpecEnum runs  *)
(* one enumeration with its thumbnail threads; SpecJoin runs the           *)
(* dispatcher with the join threads; SpecShare runs the dispatcher's       *)
(* screen-share handlers with the capturer and its worker threads.         *)
(***************************************************************************)
EXTENDS Integers, Sequences, FiniteSets, TLC

(***************************************************************************)
(* Program constants (src/capture/mod.rs).                                 *)
(***************************************************************************)
MAX_FAILURES == 3

MAX_RESTART_ATTEMPTS == 5

(***************************************************************************)
(* Bounds of the model.                                                    *)
(***************************************************************************)
\* thread slots a capture worker can be spawned into
MaxThreads == 2

\* cap of the (unbounded, u64) transient-error counter
MaxTemp == 2

\* commands each producer of the dispatcher submits
MaxSubmit == 2

\* clients that connect to the IPC socket
MaxClients == 2

\* lines the clients write, all together
MaxLines == 2

\* messages the application hands to CoreSocket::send
MaxSend == 2

\* operations applied to the annotation store
MaxOps == 4

\* points one stroke holds
MaxPoints == 3

\* events the room's event task sends
MaxEvents == 3

\* sources an enumeration finds
MaxSources == 2

\* sleeps of the enumeration's wait loop that fit into the total timeout
\* (THUMBNAIL_TOTAL_TIMEOUT_SECS of 33 ms sleeps)
TimeoutSleeps == 2

Threads == 1..MaxThreads

None == 0

VARIABLES
    \* ---- Capturer (src/capture/mod.rs:113-120)
    event_loop_proxy,   \* Option<EventLoopProxy>: TRUE when Some
    is_capturing,
    current_source,     \* NoSource or the source_id string (as its ':'-split parts)
    stream_tx,          \* None or the thread whose channel the sender feeds
    capture_thread,     \* None or the thread the JoinHandle belongs to
    \* ---- the thread that calls the Capturer's methods (it holds the lock)
    caller,             \* [pc, op, src, thr]
    rets,               \* the last two calls that returned, oldest first
    \* ---- capture worker threads and their stream channels
    wk,                 \* [Threads -> worker record]; res is the result of the
                        \* thread's latest frame request, pending while pc = "callback"
    rx,                 \* [Threads -> [msgs, sender]]: mpsc channel of a worker
    \* ---- Dispatcher (src/main.rs, src/lib.rs)
    queue,              \* the event loop's user-event queue
    current,            \* the command handle_user_event is handling, or NoCmd
    exited,             \* elwt.exit() was called
    running,            \* event_loop.run_app has not returned
    nextSeq,            \* per producer: number of the next submission
    arrived,            \* every command in the order it reached the queue
    processed,          \* every command handled, in the order handled
    connection_state,
    room_service,       \* TRUE when Some
    socket,             \* TRUE when Some
    sent,               \* notifications handed to socket.send(), in order
    \* ---- IPC channel (src/socket/mod.rs)
    shutdown,           \* the shutdown flag (Arc<Mutex<bool>>)
    sender,             \* TRUE while the CoreSocket (the channel's sender) exists
    outgoing,           \* the unbounded channel of outbound messages
    server,             \* where run_server is: bind, check, accept, serve, ended
    socket_file,        \* the socket file exists
    serving,            \* None or the client whose connection the writer loop serves
    conns,              \* [Clients -> [state, open, inbox, wire]]
    reader,             \* [Clients -> none, running, ended]: the reader task
    nextMsg,            \* number of the next message handed to send()
    handled,            \* the lines read, with what handle_message made of each
    \* ---- AnnotationStore (src/annotation/mod.rs:51-55)
    strokes,            \* HashMap<String, Stroke>: a function on the ids present
    stroke_order,       \* Vec<String>
    creation,           \* history: the ids started and not removed since, oldest first
    ops,                \* history: number of store operations applied
    last,               \* history: the store operation applied last
    \* ---- Capturer::enumerate_sources and its thumbnail threads
    enumerator,         \* the call: [pc, source_count, elapsed, i]
    results,            \* Arc<Mutex<Vec<(id, index, thumbnail)>>>
    screens,            \* Vec<ScreenInfo>, returned when pc = "returned"
    thumb,              \* [index -> thumbnail thread and its stop channel]
    \* ---- the threads handle_join_room spawns (src/lib.rs:985-1020)
    join,               \* [JoinThreads -> [pc, result, todo]]
    \* ---- screen sharing (src/lib.rs, src/room/mod.rs)
    is_sharing,
    screen_share_track, \* RoomService::screen_share_track: TRUE when Some
    handler,            \* where the handler of `current` is: idle, or inside a
                        \* call of the capturer, or behind the unpublish
    \* ---- Application: the session's records (src/lib.rs:451-478)
    annotations_enabled,
    participants,       \* HashMap<String, ParticipantData>: the ids present
    remote_cursors      \* HashMap<String, RemoteCursor>: the ids present

capturerVars == <<event_loop_proxy, is_capturing, current_source, stream_tx, capture_thread>>

captureVars == <<event_loop_proxy, is_capturing, current_source, stream_tx, capture_thread,
                 caller, rets, wk, rx>>

dispatchVars == <<queue, current, exited, running, nextSeq, arrived, processed,
                  connection_state, room_service, socket, sent>>

socketVars == <<shutdown, sender, outgoing, server, socket_file, serving, conns,
                reader, nextMsg, handled>>

storeVars == <<strokes, stroke_order, creation, ops, last>>

enumVars == <<enumerator, results, screens, thumb>>

joinVars == <<join>>

shareVars == <<is_sharing, screen_share_track, handler>>

sessionVars == <<annotations_enabled, participants, remote_cursors>>

vars == <<captureVars, dispatchVars, socketVars, storeVars, enumVars, joinVars, shareVars,
          sessionVars>>

\* what the capture pipeline's steps leave alone, and the dispatcher's
outsideCapture == <<dispatchVars, socketVars, storeVars, enumVars, joinVars, shareVars,
                    sessionVars>>

\* the components the dispatcher's own fields are not part of
beyondDispatch == <<captureVars, socketVars, storeVars, enumVars, joinVars, shareVars>>

outsideDispatch == <<beyondDispatch, sessionVars>>

\* what the steps of the dispatcher and of the join threads leave alone
outsideJoin == <<captureVars, socketVars, storeVars, enumVars, shareVars, sessionVars>>

\* what the handlers of screen sharing leave alone
outsideShare == <<socketVars, storeVars, enumVars, joinVars, sessionVars>>

\* what the steps of the IPC channel leave alone: they put events into the
\* dispatcher's queue and touch nothing else of it
outsideSocket == <<captureVars, current, exited, running, processed,
                   connection_state, room_service, socket, sent, storeVars, enumVars,
                   joinVars, shareVars, sessionVars>>

outsideStore == <<captureVars, dispatchVars, socketVars, enumVars, joinVars, shareVars,
                  sessionVars>>

outsideEnum == <<captureVars, dispatchVars, socketVars, storeVars, joinVars, shareVars,
                 sessionVars>>

(***************************************************************************)
(* CAPTURE PIPELINE                                                        *)
(***************************************************************************)

\* CaptureResult delivered to the capture callback
Results == {"Success", "ErrorTemporary", "ErrorPermanent", "ErrorUserStopped"}

\* source_id strings handed to start_capture, split at ':'.  The second
\* part is a number when it parses as u64.
SourceIds == { <<"screen", 1>>, <<"screen">> }

\* current_source: None
NoSource == <<>>

\* source_id.split(':').nth(1).and_then(|s| s.parse().ok()): <<id>> for
\* Some(id), <<>> for None
ParseId(source_id) ==
    IF Len(source_id) >= 2 /\ source_id[2] \in Nat THEN <<source_id[2]>> ELSE <<>>

\* The locals of a worker thread that was never spawned or was joined.
NoWorker ==
    [pc |-> "none", res |-> "none", source |-> 0, proxy |-> FALSE,
     failures |-> 0, temp_error_count |-> 0, restart_attempts |-> 0,
     needs_restart |-> FALSE, should_stop |-> FALSE, retry_num |-> 0,
     exit |-> "none", only_perm |-> TRUE, errors |-> <<>>]

\* The locals run_capture_loop starts with.
NewWorker(id, proxy) ==
    [NoWorker EXCEPT !.pc = "init", !.source = id, !.proxy = proxy]

NoChannel == [msgs |-> <<>>, sender |-> FALSE]

\* proxy.send_event(UserEvent::Error{code, ..}) when the worker has a proxy
SendError(s, code) ==
    IF s.proxy THEN [s EXCEPT !.errors = Append(@, code)] ELSE s

\* The worker leaves run_capture_loop.
Exit(s, reason) == [s EXCEPT !.pc = "done", !.exit = reason]


(***************************************************************************)
(* The capture callback (run_capture_loop, the closure handed to           *)
(* DesktopCapturer::new).  It runs on the worker thread, inside            *)
(* capture_frame().                                                        *)
(***************************************************************************)

\* OnTemporary as it would be if a transient error also counted as a failure
OnTemporary_CountsAsFailure(s) ==
    [s EXCEPT !.temp_error_count = @ + 1, !.failures = @ + 1]

\* OnTemporary as it would be if a transient error also cleared the failures
OnTemporary_ResetsFailures(s) ==
    [s EXCEPT !.temp_error_count = @ + 1, !.failures = 0]

\* CaptureResult::ErrorTemporary
OnTemporary(s) == [s EXCEPT !.temp_error_count = @ + 1]

\* OnPermanent as it would be if every permanent error asked for a restart
OnPermanent_EveryError(s) ==
    LET s1 == [s EXCEPT !.failures = @ + 1]
    IN  IF s.restart_attempts >= MAX_RESTART_ATTEMPTS
        THEN [s1 EXCEPT !.should_stop = TRUE]
        ELSE [s1 EXCEPT !.needs_restart = TRUE]

\* OnPermanent as it would be with `>` for `>=` in the restart bound
OnPermanent_OffByOne(s) ==
    LET current_fails == s.failures + 1
        s1 == [s EXCEPT !.failures = current_fails]
    IN  IF current_fails >= MAX_FAILURES
        THEN IF s.restart_attempts > MAX_RESTART_ATTEMPTS
             THEN [s1 EXCEPT !.should_stop = TRUE]
             ELSE [s1 EXCEPT !.needs_restart = TRUE]
        ELSE s1

\* CaptureResult::ErrorPermanent
OnPermanent(s) ==
    LET current_fails == s.failures + 1
        s1 == [s EXCEPT !.failures = current_fails]
    IN  IF current_fails >= MAX_FAILURES
        THEN IF s.restart_attempts >= MAX_RESTART_ATTEMPTS
             THEN [s1 EXCEPT !.should_stop = TRUE]
             ELSE [s1 EXCEPT !.needs_restart = TRUE]
        ELSE s1

\* CaptureResult::ErrorUserStopped
OnUserStopped(s) == [s EXCEPT !.should_stop = TRUE]

\* OnSuccess as it would be if only the permanent counter were reset
OnSuccess_KeepsTransient(s) == [s EXCEPT !.failures = 0]

\* any other result: a frame was delivered
OnSuccess(s) == [s EXCEPT !.failures = 0, !.temp_error_count = 0]

Callback(s, result) ==
    IF s.should_stop THEN s
    ELSE CASE result = "ErrorTemporary"   -> OnTemporary(s)
           [] result = "ErrorPermanent"   -> OnPermanent(s)
           [] result = "ErrorUserStopped" -> OnUserStopped(s)
           [] OTHER                       -> OnSuccess(s)

(***************************************************************************)
(* restart_capture                                                         *)
(***************************************************************************)

\* the restart attempt counter is incremented, then the thread sleeps
RestartBegin(s) ==
    [s EXCEPT !.restart_attempts = @ + 1, !.pc = "restart_sleep"]

\* after the sleep: both failure counters are reset, the retry loop starts
RestartReset(s) ==
    [s EXCEPT !.failures = 0, !.temp_error_count = 0, !.retry_num = 0, !.pc = "retry"]

(***************************************************************************)
(* run_capture_loop: the worker thread                                     *)
(***************************************************************************)

\* RecvTimeout as it would be if the tick fired before the channel was polled
RecvTimeout_Late(ch) ==
    IF ch.sender \/ ch.msgs # <<>> THEN "Timeout" ELSE "Disconnected"

\* rx.recv_timeout(FRAME_CAPTURE_INTERVAL_MS): a queued message is returned at
\* once; with none, the wait times out while a sender lives and reports
\* Disconnected once the sender was dropped.
RecvTimeout(ch) ==
    IF ch.msgs # <<>> THEN Head(ch.msgs)
    ELSE IF ch.sender THEN "Timeout" ELSE "Disconnected"

\* The results the capturer may deliver (the transient counter is capped).
Offered(s) ==
    {r \in Results : r = "ErrorTemporary" => s.temp_error_count < MaxTemp}

\* `if *should_stop.lock() { break }`, else capture_frame(), which hands a
\* result to the callback
CheckStopThenCapture(s, result) ==
    IF s.should_stop THEN Exit(s, "should_stop")
    ELSE [s EXCEPT !.pc = "callback", !.res = result]

\* DesktopCapturer::new(callback, false, false)
WorkerCreate(t) ==
    /\ wk[t].pc = "init"
    /\ \E created \in BOOLEAN :
          wk' = [wk EXCEPT ![t] =
                   IF created THEN [@ EXCEPT !.pc = "select"]
                   ELSE Exit(SendError(@, "capture_failed"), "create_failed")]
    /\ UNCHANGED <<capturerVars, caller, rets, rx, outsideCapture>>

\* sources.iter().find(|s| s.id() == source_id), then start_capture(source)
WorkerSelect(t) ==
    /\ wk[t].pc = "select"
    /\ \E found \in BOOLEAN :
          wk' = [wk EXCEPT ![t] =
                   IF found THEN [@ EXCEPT !.pc = "recv"]
                   ELSE Exit(SendError(@, "source_not_found"), "source_not_found")]
    /\ UNCHANGED <<capturerVars, caller, rets, rx, outsideCapture>>

\* the head of the loop: match rx.recv_timeout(..)
WorkerRecv(t) ==
    /\ wk[t].pc = "recv"
    /\ LET r == RecvTimeout(rx[t]) IN
          CASE r = "Timeout" ->
                  /\ wk' = [wk EXCEPT ![t].pc = "tick"]
                  /\ rx' = rx
            [] r = "Disconnected" ->
                  /\ wk' = [wk EXCEPT ![t] = Exit(@, "disconnected")]
                  /\ rx' = rx
            [] r = "Stop" ->
                  /\ wk' = [wk EXCEPT ![t] = Exit(@, "stop")]
                  /\ rx' = [rx EXCEPT ![t].msgs = Tail(@)]
            [] OTHER ->
                  /\ wk' = [wk EXCEPT ![t] = Exit(@, "failed")]
                  /\ rx' = [rx EXCEPT ![t].msgs = Tail(@)]
    /\ UNCHANGED <<capturerVars, caller, rets, outsideCapture>>

\* Err(Timeout): `if *needs_restart.lock()` enters restart_capture, otherwise
\* the should_stop check and the frame request follow
WorkerTick(t) ==
    /\ wk[t].pc = "tick"
    /\ \E result \in Offered(wk[t]) :
          wk' = [wk EXCEPT ![t] =
                   IF @.needs_restart THEN RestartBegin(@)
                   ELSE CheckStopThenCapture(@, result)]
    /\ UNCHANGED <<capturerVars, caller, rets, rx, outsideCapture>>

\* restart_capture after its stabilisation sleep
WorkerRestartReset(t) ==
    /\ wk[t].pc = "restart_sleep"
    /\ wk' = [wk EXCEPT ![t] = RestartReset(@)]
    /\ UNCHANGED <<capturerVars, caller, rets, rx, outsideCapture>>

\* one pass of restart_capture's retry loop.  Found: capture is re-started,
\* Ok(()) is returned, needs_restart is cleared and the loop goes on to its
\* should_stop check.  Absent: the next retry, or after the last one the
\* restart_failed error and Err, on which the loop breaks.
WorkerRetry(t) ==
    /\ wk[t].pc = "retry"
    /\ \E found \in BOOLEAN, result \in Offered(wk[t]) :
          wk' = [wk EXCEPT ![t] =
                   IF found
                   THEN CheckStopThenCapture([@ EXCEPT !.needs_restart = FALSE], result)
                   ELSE IF @.retry_num < MAX_RESTART_ATTEMPTS - 1
                        THEN [@ EXCEPT !.retry_num = @ + 1]
                        ELSE Exit(SendError(@, "restart_failed"), "restart_failed")]
    /\ UNCHANGED <<capturerVars, caller, rets, rx, outsideCapture>>

\* the callback runs on the result of the frame request
WorkerCallback(t) ==
    /\ wk[t].pc = "callback"
    /\ LET s == wk[t] IN
          wk' = [wk EXCEPT ![t] =
                   [Callback(s, s.res) EXCEPT
                       !.pc = "recv",
                       !.only_perm = s.only_perm /\ s.res = "ErrorPermanent"]]
    /\ UNCHANGED <<capturerVars, caller, rets, rx, outsideCapture>>


(***************************************************************************)
(* Capturer: the methods, run by the thread that holds the capturer        *)
(***************************************************************************)

Idle == [pc |-> "idle", op |-> "none", src |-> <<>>, thr |-> None]

\* the call that returned joins the window of the last two
Returned(r, call) == IF Len(r) < 2 THEN Append(r, call) ELSE <<r[2], call>>

\* StartNeedsStop as it would be if start_capture did not stop first
StartNeedsStop_Never == FALSE

\* `if self.is_capturing { self.stop_capture(); }` in start_capture
StartNeedsStop == is_capturing

\* `if !self.is_capturing { return; }` in stop_capture
StopReturnsEarly == ~is_capturing

\* JoinReady as it would be if stop_capture did not wait for the thread
JoinReady_NoWait(t) == TRUE

\* handle.join() returns once the thread has ended
JoinReady(t) == wk[t].pc = "done"

\* the slot a spawned thread takes
FreeSlots(w) == {t \in Threads : w[t].pc = "none"}

\* self.stream_tx.take() and tx.send(StreamMessage::Stop): the message is
\* queued unless the receiver is gone, and the sender is dropped
SendStop(r) ==
    IF stream_tx = None THEN r
    ELSE [r EXCEPT ![stream_tx] =
            [msgs   |-> IF wk[stream_tx].pc \in {"none", "done"}
                        THEN @.msgs ELSE Append(@.msgs, "Stop"),
             sender |-> FALSE]]

\* stop_capture up to its join: the stop signal is sent, the handle taken
BeginStop(op, src) ==
    /\ rx' = SendStop(rx)
    /\ stream_tx' = None
    /\ caller' = [pc |-> "join", op |-> op, src |-> src, thr |-> capture_thread]
    /\ capture_thread' = None
    /\ UNCHANGED <<event_loop_proxy, is_capturing, current_source, rets, wk>>

\* StopSource as it would be if stop_capture did not clear current_source
StopSource_Keeps(src) == src

\* the source stop_capture leaves behind
StopSource(src) == NoSource

\* start_capture after its stop_capture: the id is parsed; on failure
\* SourceNotFound is returned, otherwise the channel is created, the worker
\* spawned and the fields set.  w, r, capturing, source: the state start_capture
\* continues from.
StartBody(src, w, r, capturing, source) ==
    LET id == ParseId(src) IN
    IF id = <<>>
    THEN /\ wk' = w
         /\ rx' = r
         /\ is_capturing' = capturing
         /\ current_source' = source
         /\ rets' = Returned(rets, "start_err")
         /\ caller' = Idle
         /\ UNCHANGED <<event_loop_proxy, stream_tx, capture_thread>>
    ELSE /\ FreeSlots(w) # {}
         /\ LET t  == CHOOSE x \in FreeSlots(w) : \A y \in FreeSlots(w) : x <= y
                r1 == IF stream_tx = None THEN r
                      ELSE [r EXCEPT ![stream_tx].sender = FALSE]
            IN  /\ wk' = [w EXCEPT ![t] = NewWorker(id[1], event_loop_proxy)]
                /\ rx' = [r1 EXCEPT ![t] = [msgs |-> <<>>, sender |-> TRUE]]
                /\ stream_tx' = t
                /\ capture_thread' = t
         /\ is_capturing' = TRUE
         /\ current_source' = src
         /\ rets' = Returned(rets, "start_ok")
         /\ caller' = Idle
         /\ UNCHANGED event_loop_proxy

\* Capturer::set_event_loop_proxy
SetEventLoopProxy ==
    /\ caller.pc = "idle"
    /\ event_loop_proxy' = TRUE
    /\ UNCHANGED <<is_capturing, current_source, stream_tx, capture_thread,
                   caller, rets, wk, rx, outsideCapture>>

\* start_capture up to its return, or up to the join of its stop_capture
StartCaptureCall(src) ==
    /\ caller.pc = "idle"
    /\ IF StartNeedsStop /\ ~StopReturnsEarly
       THEN BeginStop("start", src)
       ELSE StartBody(src, wk, rx, is_capturing, current_source)

\* Capturer::start_capture is called
StartCapture(src) == StartCaptureCall(src) /\ UNCHANGED outsideCapture

\* stop_capture up to its early return, or up to its join
StopCaptureCall ==
    /\ caller.pc = "idle"
    /\ IF StopReturnsEarly
       THEN /\ rets' = Returned(rets, "stop_noop")
            /\ UNCHANGED <<capturerVars, caller, wk, rx>>
       ELSE BeginStop("stop", <<>>)

\* Capturer::stop_capture is called
StopCapture == StopCaptureCall /\ UNCHANGED outsideCapture

\* handle.join() returns: stop_capture clears is_capturing and
\* current_source and returns, to its caller or into start_capture
JoinReturn ==
    /\ caller.pc = "join"
    /\ caller.thr = None \/ JoinReady(caller.thr)
    /\ LET t == caller.thr
           joined == t # None /\ wk[t].pc = "done"
           w == IF joined THEN [wk EXCEPT ![t] = NoWorker] ELSE wk
           r == IF joined THEN [rx EXCEPT ![t] = NoChannel] ELSE rx
       IN  IF caller.op = "start"
           THEN StartBody(caller.src, w, r, FALSE, StopSource(current_source))
           ELSE /\ wk' = w
                /\ rx' = r
                /\ is_capturing' = FALSE
                /\ current_source' = StopSource(current_source)
                /\ rets' = Returned(rets, "stop_joined")
                /\ caller' = Idle
                /\ UNCHANGED <<event_loop_proxy, stream_tx, capture_thread>>
    /\ UNCHANGED outsideCapture

InitCapture ==
    /\ event_loop_proxy = FALSE
    /\ is_capturing = FALSE
    /\ current_source = NoSource
    /\ stream_tx = None
    /\ capture_thread = None
    /\ caller = Idle
    /\ rets = <<>>
    /\ wk = [t \in Threads |-> NoWorker]
    /\ rx = [t \in Threads |-> NoChannel]

NextCapture ==
    \/ SetEventLoopProxy
    \/ \E src \in SourceIds : StartCapture(src)
    \/ StopCapture
    \/ JoinReturn
    \/ \E t \in Threads : WorkerCreate(t)
    \/ \E t \in Threads : WorkerSelect(t)
    \/ \E t \in Threads : WorkerRecv(t)
    \/ \E t \in Threads : WorkerTick(t)
    \/ \E t \in Threads : WorkerRestartReset(t)
    \/ \E t \in Threads : WorkerRetry(t)
    \/ \E t \in Threads : WorkerCallback(t)

(***************************************************************************)
(* DISPATCHER                                                              *)
(***************************************************************************)

NoCmd == [prod |-> "none", seq |-> 0, kind |-> "none", arg |-> ""]

\* the threads handle_join_room can spawn, each with its clone of the proxy
JoinThreads == {"join1", "join2"}

\* The threads and tasks that hold an EventLoopProxy: the socket reader task
\* (handle_message), the socket server task (run_server) and the dispatcher
\* itself (the follow-ups its handlers send).
Producers == {"ipc", "server", "self"}

\* everything that sends events: the producers, the threads that join a room,
\* the room's event task (handle_room_events) and the host, which holds the
\* proxy Application::event_loop_proxy() hands out
Senders == Producers \cup JoinThreads \cup {"room", "host"}

\* the commands a producer submits
Submits(p) ==
    CASE p = "ipc"    -> {"CheckPermissions", "LeaveRoom", "StartScreenShare", "Terminate"}
      [] p = "server" -> {"SocketConnected", "SocketDisconnected"}
      [] OTHER        -> {}

\* Enqueue as it would be if an event were put at the front of the queue
Enqueue_Front(q, c) == <<c>> \o q

\* EventLoopProxy::send_event: the event joins the end of the queue
Enqueue(q, c) == Append(q, c)

\* the command producer p submits next, with the value it carries
CmdOf(p, kind, arg) == [prod |-> p, seq |-> nextSeq[p], kind |-> kind, arg |-> arg]

\* a command that carries nothing the model looks at
Cmd(p, kind) == CmdOf(p, kind, "")

\* proxy.send_event(event) by a producer other than the dispatcher; it fails
\* with EventLoopClosed once the event loop is gone
Submit(p, kind) ==
    /\ running
    /\ nextSeq[p] <= MaxSubmit
    /\ queue' = Enqueue(queue, Cmd(p, kind))
    /\ arrived' = Append(arrived, Cmd(p, kind))
    /\ nextSeq' = [nextSeq EXCEPT ![p] = @ + 1]
    /\ UNCHANGED <<current, exited, running, processed, connection_state, room_service,
                   socket, sent, outsideDispatch>>

\* self.event_loop_proxy.send_event(..) inside a handler
SelfSendOf(kind, arg) ==
    /\ queue' = Enqueue(queue, CmdOf("self", kind, arg))
    /\ arrived' = Append(arrived, CmdOf("self", kind, arg))
    /\ nextSeq' = [nextSeq EXCEPT !["self"] = @ + 1]

SelfSend(kind) == SelfSendOf(kind, "")

\* a send_* as it would be if nothing were handed to the socket
SocketSend_Never(msg) == sent' = sent

\* socket.send(msg) when the socket is there
SocketSend(msg) ==
    sent' = IF socket THEN Append(sent, msg) ELSE sent

\* the handler of `current` returns
Handled ==
    /\ processed' = Append(processed, current)
    /\ current' = NoCmd

\* AppHandler::user_event: the event loop hands the next event to
\* handle_user_event.  Neither user_event nor handle_user_event looks at
\* whether elwt.exit() was called: until run_app returns, an event the loop
\* hands over is handled.
UserEvent ==
    /\ running
    /\ current = NoCmd
    /\ queue # <<>>
    /\ current' = Head(queue)
    /\ queue' = Tail(queue)
    /\ UNCHANGED <<exited, running, nextSeq, arrived, processed, connection_state,
                   room_service, socket, sent, outsideDispatch>>

\* UserEvent::CheckPermissions: handle_check_permissions
HandleCheckPermissions ==
    /\ current.kind = "CheckPermissions"
    /\ Handled
    /\ SelfSend("PermissionStateChanged")
    /\ UNCHANGED <<exited, running, connection_state, room_service, socket, sent,
                   outsideDispatch>>

\* UserEvent::PermissionStateChanged: send_permission_state
HandlePermissionStateChanged ==
    /\ current.kind = "PermissionStateChanged"
    /\ Handled
    /\ SocketSend("permission_state")
    /\ UNCHANGED <<queue, exited, running, nextSeq, arrived, connection_state,
                   room_service, socket, outsideDispatch>>

\* UserEvent::LeaveRoom: handle_leave_room
HandleLeaveRoom ==
    /\ current.kind = "LeaveRoom"
    /\ Handled
    /\ room_service' = FALSE
    /\ connection_state' = "Disconnected"
    /\ SelfSendOf("ConnectionStateChanged", "Disconnected")
    /\ participants' = {}
    /\ remote_cursors' = {}
    /\ UNCHANGED <<exited, running, socket, sent, annotations_enabled, beyondDispatch>>

\* UserEvent::ConnectionStateChanged(state): send_connection_state
HandleConnectionStateChanged ==
    /\ current.kind = "ConnectionStateChanged"
    /\ Handled
    /\ connection_state' = current.arg
    /\ SocketSend("connection_state_changed")
    /\ UNCHANGED <<queue, exited, running, nextSeq, arrived, room_service, socket,
                   outsideDispatch>>

\* UserEvent::SocketConnected, UserEvent::SocketDisconnected: logged
HandleSocketEvent ==
    /\ current.kind \in {"SocketConnected", "SocketDisconnected"}
    /\ Handled
    /\ UNCHANGED <<queue, exited, running, nextSeq, arrived, connection_state,
                   room_service, socket, sent, outsideDispatch>>

\* UserEvent::StartScreenShare: handle_start_screen_share without a room (no
\* track to publish) for a source id without a number: start_capture fails
\* with SourceNotFound before anything of the capturer is changed, and the
\* failure is sent as an Error command
HandleStartScreenShare ==
    /\ current.kind = "StartScreenShare"
    /\ ~room_service
    /\ ~StartNeedsStop
    /\ \E src \in SourceIds : ParseId(src) = NoSource
    /\ Handled
    /\ SelfSend("Error")
    /\ UNCHANGED <<exited, running, connection_state, room_service, socket, sent,
                   outsideDispatch>>

\* UserEvent::Error: logged and handed to send_error
HandleError ==
    /\ current.kind = "Error"
    /\ Handled
    /\ SocketSend("error")
    /\ UNCHANGED <<queue, exited, running, nextSeq, arrived, connection_state,
                   room_service, socket, outsideDispatch>>

\* UserEvent::Terminate: handle_shutdown (stop_capture returns early, no
\* session being active here; the room service and the socket are taken) and
\* elwt.exit()
HandleTerminate ==
    /\ current.kind = "Terminate"
    /\ StopReturnsEarly
    /\ Handled
    /\ room_service' = FALSE
    /\ socket' = FALSE
    /\ exited' = TRUE
    /\ UNCHANGED <<queue, running, nextSeq, arrived, connection_state, sent,
                   outsideDispatch>>

\* event_loop.run_app returns: exit was asked for and no handler is running.
\* The events still queued are dropped with the loop.
RunAppReturns ==
    /\ running
    /\ exited
    /\ current = NoCmd
    /\ running' = FALSE
    /\ UNCHANGED <<queue, current, exited, nextSeq, arrived, processed,
                   connection_state, room_service, socket, sent,
                   outsideDispatch>>

InitDispatch ==
    /\ queue = <<>>
    /\ current = NoCmd
    /\ exited = FALSE
    /\ running = TRUE
    /\ nextSeq = [p \in Senders |-> 1]
    /\ arrived = <<>>
    /\ processed = <<>>
    /\ connection_state = "Disconnected"
    /\ room_service = FALSE
    /\ socket = TRUE
    /\ sent = <<>>

NextDispatch ==
    \/ \E p \in Producers \ {"self"} : \E kind \in Submits(p) : Submit(p, kind)
    \/ UserEvent
    \/ HandleCheckPermissions
    \/ HandlePermissionStateChanged
    \/ HandleLeaveRoom
    \/ HandleConnectionStateChanged
    \/ HandleSocketEvent
    \/ HandleStartScreenShare
    \/ HandleError
    \/ HandleTerminate
    \/ RunAppReturns

(***************************************************************************)
(* ROOM JOIN (src/lib.rs handle_join_room, src/room/mod.rs)                *)
(***************************************************************************)
\* how RoomService::new followed by RoomService::connect ends: the runtime
\* cannot be built, Room::connect fails, the 45 s timeout around Room::connect
\* fires, or the room is connected
JoinResults == {"ServiceFailed", "ConnectFailed", "TimedOut", "Connected"}

\* ReportOf as it would be if a failure were reported by its Error alone
ReportOf_ErrorOnly(result) ==
    IF result = "Connected"
    THEN <<[kind |-> "RoomConnected", arg |-> ""],
           [kind |-> "ConnectionStateChanged", arg |-> "Connected"]>>
    ELSE <<[kind |-> "Error", arg |-> ""]>>

\* the events the thread sends for a result, in the order it sends them
ReportOf(result) ==
    CASE result = "Connected" ->
             <<[kind |-> "RoomConnected", arg |-> ""],
               [kind |-> "ConnectionStateChanged", arg |-> "Connected"]>>
      [] result = "ServiceFailed" ->
             <<[kind |-> "Error", arg |-> "room_service_failed"],
               [kind |-> "ConnectionStateChanged", arg |-> "Disconnected"]>>
      [] OTHER ->
             <<[kind |-> "Error", arg |-> "room_join_failed"],
               [kind |-> "ConnectionStateChanged", arg |-> "Disconnected"]>>

\* a thread not spawned
NoJoin == [pc |-> "none", result |-> "", todo |-> <<>>]

\* the commands the IPC client submits around a join
JoinSubmits == {"JoinRoom", "LeaveRoom"}

\* UserEvent::JoinRoom: handle_join_room sends Connecting and spawns the
\* thread of the connect attempt
HandleJoinRoom ==
    /\ current.kind = "JoinRoom"
    /\ \E t \in JoinThreads :
          /\ join[t].pc = "none"
          /\ join' = [join EXCEPT ![t].pc = "new"]
    /\ Handled
    /\ SelfSendOf("ConnectionStateChanged", "Connecting")
    /\ UNCHANGED <<exited, running, connection_state, room_service, socket, sent,
                   outsideJoin>>

\* RoomService::new and, when it succeeds, the blocking RoomService::connect,
\* which ends with the room connected, with an error, or by its timeout
JoinConnect(t, result) ==
    /\ join[t].pc = "new"
    /\ join' = [join EXCEPT ![t].pc = "report", ![t].result = result,
                            ![t].todo = ReportOf(result)]
    /\ UNCHANGED <<dispatchVars, outsideJoin>>

\* the next proxy.send_event of the thread; its result is ignored, and it
\* fails once the event loop is gone.  The room service is stored before
\* Connected is sent.
JoinSend(t) ==
    /\ join[t].pc = "report"
    /\ join[t].todo # <<>>
    /\ LET event == Head(join[t].todo)
       IN  /\ IF running
              THEN /\ queue' = Enqueue(queue, CmdOf(t, event.kind, event.arg))
                   /\ arrived' = Append(arrived, CmdOf(t, event.kind, event.arg))
                   /\ nextSeq' = [nextSeq EXCEPT ![t] = @ + 1]
              ELSE UNCHANGED <<queue, arrived, nextSeq>>
           /\ room_service' = IF event.arg = "Connected" THEN TRUE ELSE room_service
    /\ join' = [join EXCEPT ![t].todo = Tail(@),
                            ![t].pc = IF Len(join[t].todo) = 1 THEN "done" ELSE "report"]
    /\ UNCHANGED <<current, exited, running, processed, connection_state, socket, sent,
                   outsideJoin>>

\* UserEvent::RoomConnected: the state becomes Connected and is sent
HandleRoomConnected ==
    /\ current.kind = "RoomConnected"
    /\ Handled
    /\ connection_state' = "Connected"
    /\ SocketSend("connection_state_changed")
    /\ UNCHANGED <<queue, exited, running, nextSeq, arrived, room_service, socket,
                   outsideDispatch>>

JoinStep(t) == (\E result \in JoinResults : JoinConnect(t, result)) \/ JoinSend(t)

InitJoin == join = [t \in JoinThreads |-> NoJoin]

NextJoin ==
    \/ \E kind \in JoinSubmits : Submit("ipc", kind)
    \/ UserEvent
    \/ HandleJoinRoom
    \/ \E t \in JoinThreads, result \in JoinResults : JoinConnect(t, result)
    \/ \E t \in JoinThreads : JoinSend(t)
    \/ HandleRoomConnected
    \/ HandleConnectionStateChanged
    \/ HandleError
    \/ HandleLeaveRoom

(***************************************************************************)
(* SCREEN SHARING (src/lib.rs handle_start_screen_share,                   *)
(* handle_stop_screen_share and the ScreenShareStateChanged arm)           *)
(***************************************************************************)
\* the commands the IPC client submits around a screen share
ShareSubmits == {"StartScreenShare", "StopScreenShare"}

\* the result of the last call of the capturer that returned
LastRet == IF rets = <<>> THEN "none" ELSE rets[Len(rets)]

\* StartReport as it would be if the state change were sent on failure too
StartReport_AlwaysStarted(ret) == [kind |-> "ScreenShareStateChanged", arg |-> "true"]

\* what handle_start_screen_share sends for the result of start_capture
StartReport(ret) ==
    IF ret = "start_ok"
    THEN [kind |-> "ScreenShareStateChanged", arg |-> "true"]
    ELSE [kind |-> "Error", arg |-> "capture_failed"]

\* send_screen_share_state: the message for the sharing state
ShareNotice(sharing) ==
    IF sharing THEN "screen_share_started" ELSE "screen_share_stopped"

\* OverlayRequest as it would be if the overlay were asked for either way
OverlayRequest_AlwaysCreate(sharing) == "CreateOverlay"

\* the overlay event the ScreenShareStateChanged arm sends
OverlayRequest(sharing) == IF sharing THEN "CreateOverlay" ELSE "DestroyOverlay"

\* UserEvent::StartScreenShare: handle_start_screen_share up to the return of
\* start_capture.  With a room the track is published first; when that fails
\* the error is sent and the handler returns.  start_capture may have to join
\* the worker of the session before.
HandleShareStart(src, published) ==
    /\ current.kind = "StartScreenShare"
    /\ handler = "idle"
    /\ IF room_service /\ ~published
       THEN /\ Handled
            /\ SelfSendOf("Error", "publish_failed")
            /\ UNCHANGED <<captureVars, handler, screen_share_track>>
       ELSE /\ StartCaptureCall(src)
            /\ handler' = "start_capture"
            /\ screen_share_track' = (room_service \/ screen_share_track)
            /\ UNCHANGED <<queue, current, nextSeq, arrived, processed>>
    /\ UNCHANGED <<exited, running, connection_state, room_service, socket, sent,
                   is_sharing, outsideShare>>

\* start_capture has returned: ScreenShareStateChanged(true) is sent on Ok,
\* the capture_failed error on Err
HandleShareStartReturn ==
    /\ current.kind = "StartScreenShare"
    /\ handler = "start_capture"
    /\ caller.pc = "idle"
    /\ handler' = "idle"
    /\ Handled
    /\ SelfSendOf(StartReport(LastRet).kind, StartReport(LastRet).arg)
    /\ UNCHANGED <<captureVars, exited, running, connection_state, room_service, socket,
                   sent, is_sharing, screen_share_track, outsideShare>>

\* UserEvent::StopScreenShare: handle_stop_screen_share calls stop_capture
HandleShareStop ==
    /\ current.kind = "StopScreenShare"
    /\ handler = "idle"
    /\ StopCaptureCall
    /\ handler' = "stop_capture"
    /\ UNCHANGED <<dispatchVars, is_sharing, screen_share_track, outsideShare>>

\* stop_capture has returned: with a room the track is unpublished
HandleShareUnpublish ==
    /\ current.kind = "StopScreenShare"
    /\ handler = "stop_capture"
    /\ caller.pc = "idle"
    /\ handler' = "unpublished"
    /\ screen_share_track' = IF room_service THEN FALSE ELSE screen_share_track
    /\ UNCHANGED <<captureVars, dispatchVars, is_sharing, outsideShare>>

\* the end of handle_stop_screen_share: ScreenShareStateChanged(false) is sent
HandleShareStopSend ==
    /\ current.kind = "StopScreenShare"
    /\ handler = "unpublished"
    /\ handler' = "idle"
    /\ Handled
    /\ SelfSendOf("ScreenShareStateChanged", "false")
    /\ UNCHANGED <<captureVars, exited, running, connection_state, room_service, socket,
                   sent, is_sharing, screen_share_track, outsideShare>>

\* UserEvent::ScreenShareStateChanged: the sharing state is set and sent, and
\* the overlay is asked to be created or destroyed
HandleScreenShareStateChanged ==
    /\ current.kind = "ScreenShareStateChanged"
    /\ is_sharing' = (current.arg = "true")
    /\ SocketSend(ShareNotice(current.arg = "true"))
    /\ Handled
    /\ SelfSend(OverlayRequest(current.arg = "true"))
    /\ UNCHANGED <<captureVars, exited, running, connection_state, room_service, socket,
                   screen_share_track, handler, outsideShare>>

\* UserEvent::CreateOverlay, UserEvent::DestroyOverlay: the overlay window is
\* created or destroyed
HandleOverlayEvent ==
    /\ current.kind \in {"CreateOverlay", "DestroyOverlay"}
    /\ Handled
    /\ UNCHANGED <<queue, exited, running, nextSeq, arrived, connection_state,
                   room_service, socket, sent, outsideDispatch>>

InitShare ==
    /\ is_sharing = FALSE
    /\ screen_share_track = FALSE
    /\ handler = "idle"

NextShare ==
    \/ \E kind \in ShareSubmits : Submit("ipc", kind)
    \/ UserEvent
    \/ \E src \in SourceIds, published \in BOOLEAN : HandleShareStart(src, published)
    \/ HandleShareStartReturn
    \/ HandleShareStop
    \/ HandleShareUnpublish
    \/ HandleShareStopSend
    \/ HandleScreenShareStateChanged
    \/ HandleOverlayEvent
    \/ HandleError
    \/ JoinReturn
    \/ \E t \in Threads : WorkerCreate(t)
    \/ \E t \in Threads : WorkerSelect(t)
    \/ \E t \in Threads : WorkerRecv(t)
    \/ \E t \in Threads : WorkerTick(t)
    \/ \E t \in Threads : WorkerRestartReset(t)
    \/ \E t \in Threads : WorkerRetry(t)
    \/ \E t \in Threads : WorkerCallback(t)

(***************************************************************************)
(* IPC CHANNEL                                                             *)
(***************************************************************************)

Clients == 1..MaxClients

\* the "type" tags of IncomingMessage (serde: tag = "type", snake_case)
MessageTypes ==
    {"join_room", "leave_room", "get_available_content", "start_screen_share",
     "stop_screen_share", "send_annotation", "delete_annotation",
     "clear_annotations", "cursor_move", "cursor_hide", "set_mic_muted",
     "set_camera_enabled", "set_audio_input_device", "set_video_input_device",
     "check_permissions", "request_screen_recording_permission", "ping",
     "shutdown"}

\* CaptureConfig::default()
DefaultConfig ==
    [width |-> 1920, height |-> 1080, framerate |-> 60, bitrate |-> 6000000]

\* a config a client gives
OtherConfig ==
    [width |-> 1280, height |-> 720, framerate |-> 30, bitrate |-> 2000000]

\* The fields of a message that handle_message looks at: the optional config
\* of start_screen_share (<<>> when absent) and the points of send_annotation.
ArgsOf(type) ==
    CASE type = "start_screen_share" -> {<<>>, <<OtherConfig>>}
      [] type = "send_annotation"    -> {<<>>, <<"p1", "p2">>}
      [] OTHER                       -> {<<>>}

\* A line a client writes: a message of a documented type, or a line that is
\* not JSON ("not_json", the empty line included), a JSON object of no known
\* type ("unknown_type"), or bytes that are not UTF-8 ("not_utf8").
Line(type, arg) == [type |-> type, arg |-> arg]

\* the valid lines of the documented types
DocumentedLines ==
    UNION {{Line(type, arg) : arg \in ArgsOf(type)} : type \in MessageTypes}

BadLines == {Line("not_json", <<>>), Line("unknown_type", <<>>), Line("not_utf8", <<>>)}

\* the lines the clients of SpecSocket write
ClientLines ==
    {Line("leave_room", <<>>), Line("ping", <<>>)} \cup BadLines

\* the UserEvent handle_message makes, as an optional: <<>> for none
Event(kind, arg) == <<[kind |-> kind, arg |-> arg]>>

\* handle_message as it would be if shutdown were taken for leave_room
Translate_ShutdownLeaves(msg) ==
    IF msg.type = "shutdown" THEN Event("LeaveRoom", <<>>) ELSE <<>>

\* handle_message: the match on the IncomingMessage
Translate(msg) ==
    CASE msg.type = "join_room" -> Event("JoinRoom", <<>>)
      [] msg.type = "leave_room" -> Event("LeaveRoom", <<>>)
      [] msg.type = "get_available_content" -> Event("GetAvailableContent", <<>>)
      [] msg.type = "start_screen_share" ->
            Event("StartScreenShare",
                  IF msg.arg = <<>> THEN <<DefaultConfig>> ELSE <<msg.arg[1]>>)
      [] msg.type = "stop_screen_share" -> Event("StopScreenShare", <<>>)
      [] msg.type = "send_annotation" ->
            IF msg.arg # <<>> THEN Event("StrokeStart", <<"local", msg.arg[1]>>)
                              ELSE <<>>
      [] msg.type = "delete_annotation" -> Event("StrokeDelete", <<>>)
      [] msg.type = "clear_annotations" -> Event("ClearAllAnnotations", <<>>)
      [] msg.type = "cursor_move" -> Event("RemoteCursorPosition", <<"local", TRUE>>)
      [] msg.type = "cursor_hide" -> Event("RemoteCursorPosition", <<"local", FALSE>>)
      [] msg.type = "set_mic_muted" -> Event("SetMicrophoneMuted", <<>>)
      [] msg.type = "set_camera_enabled" -> Event("SetCameraEnabled", <<>>)
      [] msg.type = "set_audio_input_device" -> Event("SetAudioInputDevice", <<>>)
      [] msg.type = "set_video_input_device" -> Event("SetVideoInputDevice", <<>>)
      [] msg.type = "check_permissions" -> Event("CheckPermissions", <<>>)
      [] msg.type = "request_screen_recording_permission" ->
            Event("RequestScreenRecordingPermission", <<>>)
      [] msg.type = "ping" -> <<>>
      [] msg.type = "shutdown" -> Event("Terminate", <<>>)

\* handle_message(json, proxy): serde_json::from_str fails on a line that is
\* not a message; otherwise the event of the message, if it has one, is sent
\* to the event loop
HandleMessage(line) ==
    IF line.type \notin MessageTypes
    THEN [res |-> "err", event |-> <<>>]
    ELSE [res |-> "ok", event |-> Translate(line)]

NoConn == [state |-> "none", open |-> FALSE, inbox |-> <<>>, wire |-> <<>>]

\* the lines written so far
RECURSIVE Written(_)
Written(cs) ==
    IF cs = {} THEN 0
    ELSE LET c == CHOOSE x \in cs : TRUE
         IN  Len(conns[c].inbox) + Written(cs \ {c})

\* the clients whose connection exists, accepted or not
Connected == {c \in Clients : conns[c].state \in {"pending", "accepted"} /\ conns[c].open}

\* proxy.send_event(event) from a task of the IPC channel
SendEvent(p, kind) ==
    IF running
    THEN /\ queue' = Enqueue(queue, Cmd(p, kind))
         /\ arrived' = Append(arrived, Cmd(p, kind))
         /\ nextSeq' = [nextSeq EXCEPT ![p] = @ + 1]
    ELSE UNCHANGED <<queue, arrived, nextSeq>>

\* ---- the client side

\* a client connects to the socket file; the connection waits to be accepted
ClientConnect(c) ==
    /\ conns[c].state = "none"
    /\ server \in {"check", "accept", "serve"}
    /\ socket_file
    /\ conns' = [conns EXCEPT ![c] = [NoConn EXCEPT !.state = "pending", !.open = TRUE]]
    /\ UNCHANGED <<shutdown, sender, outgoing, server, socket_file, serving,
                   reader, nextMsg, handled, queue, arrived, nextSeq, outsideSocket>>

\* a client writes a line
ClientWrite(c, line) ==
    /\ c \in Connected
    /\ Written(Clients) + Len(handled) < MaxLines
    /\ conns' = [conns EXCEPT ![c].inbox = Append(@, line)]
    /\ UNCHANGED <<shutdown, sender, outgoing, server, socket_file, serving,
                   reader, nextMsg, handled, queue, arrived, nextSeq, outsideSocket>>

\* a client closes its end
ClientClose(c) ==
    /\ c \in Connected
    /\ conns' = [conns EXCEPT ![c].open = FALSE]
    /\ UNCHANGED <<shutdown, sender, outgoing, server, socket_file, serving,
                   reader, nextMsg, handled, queue, arrived, nextSeq, outsideSocket>>

\* ---- the application side

\* the next message, as it would be if the channel were read from its end
NextOut_Last(ch) == ch[Len(ch)]

\* outgoing.recv(): the oldest message of the channel
NextOut(ch) == Head(ch)

\* the channel without the message m
Without(ch, m) == SelectSeq(ch, LAMBDA x : x # m)

\* CoreSocket::send(msg): into the channel, unless its receiver is gone.  at
\* and up record who was connected and what the server did when it was handed in.
Send(kind) ==
    /\ sender
    /\ nextMsg <= MaxSend
    /\ outgoing' = IF server # "ended"
                   THEN Append(outgoing, [id |-> nextMsg, kind |-> kind,
                                          at |-> Connected, up |-> serving])
                   ELSE outgoing
    /\ nextMsg' = nextMsg + 1
    /\ UNCHANGED <<shutdown, sender, server, socket_file, serving, conns,
                   reader, handled, queue, arrived, nextSeq, outsideSocket>>

\* CoreSocket::shutdown(self): sets the flag; the CoreSocket, and with it the
\* sender, is dropped
Shutdown ==
    /\ sender
    /\ shutdown' = TRUE
    /\ sender' = FALSE
    /\ UNCHANGED <<outgoing, server, socket_file, serving, conns, reader,
                   nextMsg, handled, queue, arrived, nextSeq, outsideSocket>>

\* ---- run_server

\* UnixListener::bind(socket_path)
ServerBind ==
    /\ server = "bind"
    /\ socket_file' = TRUE
    /\ server' = "check"
    /\ UNCHANGED <<shutdown, sender, outgoing, serving, conns, reader, nextMsg,
                   handled, queue, arrived, nextSeq, outsideSocket>>

\* top of the loop: if *shutdown.lock() { break }, and after the loop the
\* socket file is removed
ServerCheck ==
    /\ server = "check"
    /\ IF shutdown
       THEN server' = "ended" /\ socket_file' = FALSE
       ELSE server' = "accept" /\ UNCHANGED socket_file
    /\ UNCHANGED <<shutdown, sender, outgoing, serving, conns, reader, nextMsg,
                   handled, queue, arrived, nextSeq, outsideSocket>>

\* the condition under which run_server takes a connection
CanAccept_Always == TRUE

CanAccept == server = "accept"

\* listener.accept() returns a connection: SocketConnected is sent, the
\* reader task is spawned and the writer loop begins
ServerAccept(c) ==
    /\ CanAccept
    /\ server \in {"accept", "serve"}
    /\ conns[c].state = "pending"
    /\ conns' = [conns EXCEPT ![c].state = "accepted"]
    /\ SendEvent("server", "SocketConnected")
    /\ reader' = [reader EXCEPT ![c] = "running"]
    /\ serving' = c
    /\ server' = "serve"
    /\ UNCHANGED <<shutdown, sender, outgoing, socket_file, nextMsg, handled,
                   outsideSocket>>

\* the writer loop is left: read_handle.abort(), SocketDisconnected is sent
\* and the loop of run_server starts over
LeaveWriterLoop ==
    /\ reader' = [reader EXCEPT ![serving] = IF @ = "running" THEN "ended" ELSE @]
    /\ conns' = [conns EXCEPT ![serving].state = "closed", ![serving].open = FALSE]
    /\ SendEvent("server", "SocketDisconnected")
    /\ serving' = None
    /\ server' = "check"

\* writer loop: a message of the channel is written to the client; a write
\* error (the client is gone) ends the loop, the message is lost
ServerWrite ==
    /\ server = "serve"
    /\ outgoing # <<>>
    /\ LET msg == NextOut(outgoing)
       IN  /\ outgoing' = Without(outgoing, msg)
           /\ IF conns[serving].open
              THEN /\ conns' = [conns EXCEPT ![serving].wire = Append(@, msg)]
                   /\ UNCHANGED <<server, serving, reader, queue, arrived, nextSeq>>
              ELSE LeaveWriterLoop
    /\ UNCHANGED <<shutdown, sender, socket_file, nextMsg, handled, outsideSocket>>

\* writer loop: outgoing.recv() returns None, the channel being empty and
\* its sender dropped
ServerChannelClosed ==
    /\ server = "serve"
    /\ outgoing = <<>>
    /\ ~sender
    /\ LeaveWriterLoop
    /\ UNCHANGED <<shutdown, sender, outgoing, socket_file, nextMsg, handled,
                   outsideSocket>>

\* ---- the reader task of a connection

\* the reader loop as it would be if a failure of handle_message ended it
ReaderBreaks_OnFailure(line, r) == line.type = "not_utf8" \/ r.res = "err"

\* the reader loop breaks on Err of read_line: the bytes of the line are not
\* UTF-8 (ErrorKind::InvalidData)
ReaderBreaks(line, r) == line.type = "not_utf8"

\* read_line returns a line: handle_message is applied to it, a failure is
\* logged.  read_line fails on bytes that are not UTF-8 and the task ends.
ReaderLine(c) ==
    /\ reader[c] = "running"
    /\ conns[c].inbox # <<>>
    /\ LET line == Head(conns[c].inbox)
           r == HandleMessage(line)
       IN  /\ conns' = [conns EXCEPT ![c].inbox = Tail(@)]
           /\ IF line.type = "not_utf8"
              THEN /\ reader' = [reader EXCEPT ![c] = "ended"]
                   /\ handled' = Append(handled, [conn |-> c, line |-> line,
                                                  res |-> "read_error", event |-> <<>>])
                   /\ UNCHANGED <<queue, arrived, nextSeq>>
              ELSE /\ reader' = [reader EXCEPT ![c] =
                                   IF ReaderBreaks(line, r) THEN "ended" ELSE @]
                   /\ handled' = Append(handled, [conn |-> c, line |-> line,
                                                  res |-> r.res, event |-> r.event])
                   /\ IF r.event # <<>>
                      THEN SendEvent("ipc", r.event[1].kind)
                      ELSE UNCHANGED <<queue, arrived, nextSeq>>
    /\ UNCHANGED <<shutdown, sender, outgoing, server, socket_file, serving,
                   nextMsg, outsideSocket>>

\* read_line returns Ok(0): the client closed its end and all was read
ReaderEof(c) ==
    /\ reader[c] = "running"
    /\ conns[c].inbox = <<>>
    /\ ~conns[c].open
    /\ reader' = [reader EXCEPT ![c] = "ended"]
    /\ UNCHANGED <<shutdown, sender, outgoing, server, socket_file, serving,
                   conns, nextMsg, handled, queue, arrived, nextSeq, outsideSocket>>

\* the messages the application sends in SpecSocket
SendKinds == {"error"}

\* after CoreSocket::new: the channel exists, a stale socket file is removed
\* and run_server is spawned
InitSocket ==
    /\ shutdown = FALSE
    /\ sender = TRUE
    /\ outgoing = <<>>
    /\ server = "bind"
    /\ socket_file = FALSE
    /\ serving = None
    /\ conns = [c \in Clients |-> NoConn]
    /\ reader = [c \in Clients |-> "none"]
    /\ nextMsg = 1
    /\ handled = <<>>

\* one connection being served, with documented messages waiting to be read
InitTranslate ==
    /\ shutdown = FALSE
    /\ sender = TRUE
    /\ outgoing = <<>>
    /\ server = "serve"
    /\ socket_file = TRUE
    /\ serving = 1
    /\ \E l1, l2 \in DocumentedLines :
          conns = [c \in Clients |->
                      IF c = 1 THEN [state |-> "accepted", open |-> TRUE,
                                     inbox |-> <<l1, l2>>, wire |-> <<>>]
                               ELSE NoConn]
    /\ reader = [c \in Clients |-> IF c = 1 THEN "running" ELSE "none"]
    /\ nextMsg = 1
    /\ handled = <<>>

ServerStep ==
    \/ ServerBind
    \/ ServerCheck
    \/ \E c \in Clients : ServerAccept(c)
    \/ ServerWrite
    \/ ServerChannelClosed

ReaderStep == \E c \in Clients : ReaderLine(c) \/ ReaderEof(c)

NextSocket ==
    \/ \E c \in Clients : ClientConnect(c)
    \/ \E c \in Clients : \E line \in ClientLines : ClientWrite(c, line)
    \/ \E c \in Clients : ClientClose(c)
    \/ \E kind \in SendKinds : Send(kind)
    \/ Shutdown
    \/ ServerBind
    \/ ServerCheck
    \/ \E c \in Clients : ServerAccept(c)
    \/ ServerWrite
    \/ ServerChannelClosed
    \/ \E c \in Clients : ReaderLine(c)
    \/ \E c \in Clients : ReaderEof(c)

NextTranslate == \E c \in Clients : ReaderLine(c)


(***************************************************************************)
(* ANNOTATION STORE (src/annotation/mod.rs)                                *)
(***************************************************************************)
StrokeIds == {"s1", "s2"}

Participants == {"p1", "p2"}

Points == {"a", "b"}

\* the slices of points an update carries
PointRuns == {<<>>, <<"b">>, <<"a", "b">>}

\* Stroke::new: the stroke holds its start point and is not completed
NewStroke(id, participant_id, start_point) ==
    [id |-> id, participant_id |-> participant_id,
     points |-> <<start_point>>, completed |-> FALSE]

\* add_points as it would be if the points were put in front
add_points_InFront(stroke, points) == [stroke EXCEPT !.points = points \o @]

\* Stroke::add_points: extend_from_slice
add_points(stroke, points) == [stroke EXCEPT !.points = @ \o points]

\* Stroke::complete
complete(stroke) == [stroke EXCEPT !.completed = TRUE]

\* HashMap::insert: a value already under the key is replaced
Insert(map, key, value) ==
    [k \in DOMAIN map \cup {key} |-> IF k = key THEN value ELSE map[k]]

\* HashMap::remove
Remove(map, key) == [k \in DOMAIN map \ {key} |-> map[k]]

\* the store as one value
Store == [strokes |-> strokes, stroke_order |-> stroke_order]

\* AnnotationStore::new
EmptyStore == [strokes |-> <<>>, stroke_order |-> <<>>]

start_stroke(store, id, participant_id, start_point) ==
    [strokes      |-> Insert(store.strokes, id, NewStroke(id, participant_id, start_point)),
     stroke_order |-> Append(store.stroke_order, id)]

update_stroke(store, id, points) ==
    IF id \in DOMAIN store.strokes
    THEN [store EXCEPT !.strokes[id] = add_points(@, points)]
    ELSE store

complete_stroke(store, id) ==
    IF id \in DOMAIN store.strokes
    THEN [store EXCEPT !.strokes[id] = complete(@)]
    ELSE store

\* Retain as it would be if delete_stroke left the id list alone
Retain_Nothing(order, id) == order

\* Vec::retain(|id| id != stroke_id)
Retain(order, id) == SelectSeq(order, LAMBDA x : x # id)

delete_stroke(store, id) ==
    [strokes      |-> Remove(store.strokes, id),
     stroke_order |-> Retain(store.stroke_order, id)]

clear_all(store) == EmptyStore

\* ToDelete as it would be if every stroke were collected
ToDelete_All(store, participant_id) == DOMAIN store.strokes

\* the ids delete_by_participant collects
ToDelete(store, participant_id) ==
    {id \in DOMAIN store.strokes : store.strokes[id].participant_id = participant_id}

\* the loop of delete_by_participant over the collected ids
RECURSIVE DeleteEach(_, _)
DeleteEach(store, ids) ==
    IF ids = {} THEN store
    ELSE LET id == CHOOSE x \in ids : TRUE
         IN  DeleteEach(delete_stroke(store, id), ids \ {id})

delete_by_participant(store, participant_id) ==
    DeleteEach(store, ToDelete(store, participant_id))

\* AnnotationStore::strokes: the strokes in render order
StrokesOf(store) ==
    LET ids == SelectSeq(store.stroke_order, LAMBDA id : id \in DOMAIN store.strokes)
    IN  [i \in 1..Len(ids) |-> store.strokes[ids[i]]]

Strokes == StrokesOf(Store)

\* AnnotationStore::len
StoreLen == Cardinality(DOMAIN strokes)

\* an operation of the store with its arguments
Op(name, id, participant_id, points) ==
    [op |-> name, id |-> id, participant_id |-> participant_id, points |-> points]

NoOp == Op("new", "", "", <<>>)

\* the store becomes s by operation op; born are the ids op starts, gone the
\* ids op asks to remove
ApplyCall(op, s, born, gone) ==
    /\ ops < MaxOps
    /\ ops' = ops + 1
    /\ last' = op
    /\ strokes' = s.strokes
    /\ stroke_order' = s.stroke_order
    /\ creation' = SelectSeq(creation, LAMBDA x : x \notin born \cup gone)
                    \o (IF born = {} THEN <<>> ELSE <<CHOOSE x \in born : TRUE>>)

\* an operation of the store called on its own
Apply(op, s, born, gone) == ApplyCall(op, s, born, gone) /\ UNCHANGED outsideStore

StartStroke(id, participant_id, start_point) ==
    Apply(Op("start", id, participant_id, <<start_point>>),
          start_stroke(Store, id, participant_id, start_point), {id}, {})

UpdateStroke(id, points) ==
    /\ id \in DOMAIN strokes => Len(strokes[id].points) + Len(points) <= MaxPoints
    /\ Apply(Op("update", id, "", points), update_stroke(Store, id, points), {}, {})

CompleteStroke(id) ==
    Apply(Op("complete", id, "", <<>>), complete_stroke(Store, id), {}, {})

DeleteStroke(id) ==
    Apply(Op("delete", id, "", <<>>), delete_stroke(Store, id), {}, {id})

ClearAll == Apply(Op("clear", "", "", <<>>), clear_all(Store), {}, StrokeIds)

DeleteByParticipant(participant_id) ==
    Apply(Op("deleteByAuthor", "", participant_id, <<>>),
          delete_by_participant(Store, participant_id), {},
          {id \in DOMAIN strokes : strokes[id].participant_id = participant_id})

InitStore ==
    /\ strokes = EmptyStore.strokes
    /\ stroke_order = EmptyStore.stroke_order
    /\ creation = <<>>
    /\ ops = 0
    /\ last = NoOp

NextStore ==
    \/ \E id \in StrokeIds, p \in Participants, pt \in Points : StartStroke(id, p, pt)
    \/ \E id \in StrokeIds, points \in PointRuns : UpdateStroke(id, points)
    \/ \E id \in StrokeIds : CompleteStroke(id)
    \/ \E id \in StrokeIds : DeleteStroke(id)
    \/ ClearAll
    \/ \E p \in Participants : DeleteByParticipant(p)



(***************************************************************************)
(* SESSION RECORDS (src/lib.rs: participants, remote cursors, annotation   *)
(* commands; src/room/mod.rs handle_room_events)                           *)
(***************************************************************************)
\* what handle_room_events forwards: a participant joined or left, or data
\* of a participant arrived
RoomSubmits == {"ParticipantConnected", "ParticipantDisconnected", "DataReceived"}

\* the events handle_data_received makes of a payload; "none" when the
\* payload does not parse
StrokeEvents ==
    {"StrokeStart", "StrokeUpdate", "StrokeComplete", "StrokeDelete", "ClearAllAnnotations"}

DataTrackEvents == StrokeEvents \cup {"RemoteCursorPosition", "none"}

\* OutgoingMessage::ParticipantJoined / ParticipantLeft for this participant
ParticipantNotice(type, participant_id) == type \o ":" \o participant_id

\* CursorsAfterLeave as it would be if the cursor of a participant stayed
CursorsAfterLeave_Keeps(cursors, participant_id) == cursors

\* self.remote_cursors.remove(&data.id)
CursorsAfterLeave(cursors, participant_id) == cursors \ {participant_id}

\* proxy.send_event(event) of a sender that sends at most max events
ProxySend(p, kind, arg, max) ==
    /\ running
    /\ nextSeq[p] <= max
    /\ queue' = Enqueue(queue, CmdOf(p, kind, arg))
    /\ arrived' = Append(arrived, CmdOf(p, kind, arg))
    /\ nextSeq' = [nextSeq EXCEPT ![p] = @ + 1]
    /\ UNCHANGED <<current, exited, running, processed, connection_state, room_service,
                   socket, sent, outsideDispatch>>

\* handle_room_events forwards an event of the transport about a participant
RoomEvent(kind, participant_id) == ProxySend("room", kind, participant_id, MaxEvents)

\* handle_room_events forwards data of a participant
RoomData(participant_id) == ProxySend("room", "DataReceived", participant_id, MaxSubmit)

\* the host sends AnnotationPermissionChanged { enabled }
HostEvent(enabled) ==
    ProxySend("host", "AnnotationPermissionChanged",
              IF enabled THEN "true" ELSE "false", MaxSubmit)

\* UserEvent::ParticipantConnected(data)
HandleParticipantConnected ==
    /\ current.kind = "ParticipantConnected"
    /\ participants' = participants \cup {current.arg}
    /\ SocketSend(ParticipantNotice("participant_joined", current.arg))
    /\ Handled
    /\ UNCHANGED <<queue, exited, running, nextSeq, arrived, connection_state,
                   room_service, socket, annotations_enabled, remote_cursors,
                   beyondDispatch>>

\* UserEvent::ParticipantDisconnected(data)
HandleParticipantDisconnected ==
    /\ current.kind = "ParticipantDisconnected"
    /\ participants' = participants \ {current.arg}
    /\ remote_cursors' = CursorsAfterLeave(remote_cursors, current.arg)
    /\ SocketSend(ParticipantNotice("participant_left", current.arg))
    /\ Handled
    /\ UNCHANGED <<queue, exited, running, nextSeq, arrived, connection_state,
                   room_service, socket, annotations_enabled, beyondDispatch>>

\* UserEvent::DataReceived: handle_data_received parses the payload and sends
\* the event it stands for; StrokeStart and RemoteCursorPosition carry the
\* participant the data came from
HandleDataReceived(event) ==
    /\ current.kind = "DataReceived"
    /\ Handled
    /\ IF event = "none"
       THEN UNCHANGED <<queue, arrived, nextSeq>>
       ELSE SelfSendOf(event, IF event \in {"StrokeStart", "RemoteCursorPosition"}
                              THEN current.arg ELSE "")
    /\ UNCHANGED <<exited, running, connection_state, room_service, socket, sent,
                   outsideDispatch>>

\* UserEvent::RemoteCursorPosition: the cursor is moved, or inserted
HandleRemoteCursorPosition ==
    /\ current.kind = "RemoteCursorPosition"
    /\ remote_cursors' = remote_cursors \cup {current.arg}
    /\ Handled
    /\ UNCHANGED <<queue, exited, running, nextSeq, arrived, connection_state,
                   room_service, socket, sent, annotations_enabled, participants,
                   beyondDispatch>>

\* what the handler of an annotation command leaves alone: the command calls
\* the store and asks for a redraw
AnnotationHandled ==
    /\ Handled
    /\ UNCHANGED <<queue, exited, running, nextSeq, arrived, connection_state,
                   room_service, socket, sent, sessionVars, captureVars, socketVars,
                   enumVars, joinVars, shareVars>>

\* UserEvent::StrokeStart
HandleStrokeStart(id, start_point) ==
    /\ current.kind = "StrokeStart"
    /\ ApplyCall(Op("start", id, current.arg, <<start_point>>),
                 start_stroke(Store, id, current.arg, start_point), {id}, {})
    /\ AnnotationHandled

\* UserEvent::StrokeUpdate
HandleStrokeUpdate(id, points) ==
    /\ current.kind = "StrokeUpdate"
    /\ id \in DOMAIN strokes => Len(strokes[id].points) + Len(points) <= MaxPoints
    /\ ApplyCall(Op("update", id, "", points), update_stroke(Store, id, points), {}, {})
    /\ AnnotationHandled

\* UserEvent::StrokeComplete
HandleStrokeComplete(id) ==
    /\ current.kind = "StrokeComplete"
    /\ ApplyCall(Op("complete", id, "", <<>>), complete_stroke(Store, id), {}, {})
    /\ AnnotationHandled

\* UserEvent::StrokeDelete
HandleStrokeDelete(id) ==
    /\ current.kind = "StrokeDelete"
    /\ ApplyCall(Op("delete", id, "", <<>>), delete_stroke(Store, id), {}, {id})
    /\ AnnotationHandled

\* UserEvent::ClearAllAnnotations
HandleClearAllAnnotations ==
    /\ current.kind = "ClearAllAnnotations"
    /\ ApplyCall(Op("clear", "", "", <<>>), clear_all(Store), {}, StrokeIds)
    /\ AnnotationHandled

\* UserEvent::AnnotationPermissionChanged { enabled }
HandleAnnotationPermissionChanged ==
    /\ current.kind = "AnnotationPermissionChanged"
    /\ annotations_enabled' = (current.arg = "true")
    /\ Handled
    /\ UNCHANGED <<queue, exited, running, nextSeq, arrived, connection_state,
                   room_service, socket, sent, participants, remote_cursors,
                   beyondDispatch>>

InitSession ==
    /\ annotations_enabled = TRUE
    /\ participants = {}
    /\ remote_cursors = {}

\* the room's participants come, go and move their cursors
NextPeople ==
    \/ \E kind \in RoomSubmits, p \in Participants : RoomEvent(kind, p)
    \/ UserEvent
    \/ HandleParticipantConnected
    \/ HandleParticipantDisconnected
    \/ \E event \in DataTrackEvents \ StrokeEvents : HandleDataReceived(event)
    \/ HandleRemoteCursorPosition

\* the room's participants draw while the host allows or forbids it
NextAnnotate ==
    \/ \E p \in Participants : RoomData(p)
    \/ \E enabled \in BOOLEAN : HostEvent(enabled)
    \/ UserEvent
    \/ \E event \in StrokeEvents \cup {"none"} : HandleDataReceived(event)
    \/ \E id \in StrokeIds, pt \in Points : HandleStrokeStart(id, pt)
    \/ \E id \in StrokeIds, points \in PointRuns : HandleStrokeUpdate(id, points)
    \/ \E id \in StrokeIds : HandleStrokeComplete(id)
    \/ \E id \in StrokeIds : HandleStrokeDelete(id)
    \/ HandleClearAllAnnotations
    \/ HandleAnnotationPermissionChanged

(***************************************************************************)
(* SOURCE ENUMERATION (src/capture/mod.rs)                                 *)
(***************************************************************************)
\* the indexes of the sources an enumeration can find
Sources == 1..MaxSources

\* Option<String>: None, and Some(text)
NoThumbnail == <<>>

Some(text) == <<text>>

\* what a call of capturer.capture_frame() of a thumbnail thread leads to:
\* no callback, or the callback with a result and a frame
FrameResults == {"NoCallback", "ErrorTemporary", "ErrorPermanent", "EmptyFrame",
                 "NotEncoded", "Success"}

\* how the start of a thumbnail thread ends
InitResults == {"NoCapturer", "NoSource", "Started"}

\* a thread not spawned
NoThumb == [pc |-> "none", stop |-> FALSE, init |-> "", frames |-> {}]

\* the ScreenInfo pushed for the source with the given index
ScreenInfo(idx) == [id |-> idx, is_primary |-> idx = 1, thumbnail |-> NoThumbnail]

\* results.push((source_id, idx, thumbnail))
Push(idx, thumbnail) == results' = Append(results, [idx |-> idx, thumbnail |-> thumbnail])

\* the thumbnails of the results applied to the screens, in the order stored
RECURSIVE ApplyThumbnails(_, _)
ApplyThumbnails(scr, res) ==
    IF res = <<>> THEN scr
    ELSE ApplyThumbnails(
             IF Head(res).idx \in DOMAIN scr
             THEN [scr EXCEPT ![Head(res).idx].thumbnail = Some(Head(res).thumbnail)]
             ELSE scr,
             Tail(res))

\* enumerate_sources up to the wait loop: without a capture context it returns
\* no screen; otherwise it pushes a ScreenInfo and spawns a thread per source
EnumerateSources(capturer, source_count) ==
    /\ enumerator.pc = "idle"
    /\ IF ~capturer
       THEN /\ enumerator' = [enumerator EXCEPT !.pc = "returned"]
            /\ UNCHANGED <<screens, thumb>>
       ELSE /\ enumerator' = [enumerator EXCEPT !.pc = "wait", !.source_count = source_count]
            /\ screens' = [idx \in 1..source_count |-> ScreenInfo(idx)]
            /\ thumb' = [idx \in Sources |->
                           IF idx <= source_count THEN [NoThumb EXCEPT !.pc = "init"]
                           ELSE NoThumb]
    /\ UNCHANGED <<results, outsideEnum>>

\* one round of the wait loop: all results are in, or the timeout has passed,
\* or the caller sleeps
EnumWait ==
    /\ enumerator.pc = "wait"
    /\ IF Len(results) >= enumerator.source_count \/ enumerator.elapsed > TimeoutSleeps
       THEN enumerator' = [enumerator EXCEPT !.pc = "stop", !.i = 1]
       ELSE enumerator' = [enumerator EXCEPT !.elapsed = @ + 1]
    /\ UNCHANGED <<results, screens, thumb, outsideEnum>>

\* stop_tx.send(()) to the next thread
EnumStop ==
    /\ enumerator.pc = "stop"
    /\ enumerator.i <= enumerator.source_count
    /\ thumb' = [thumb EXCEPT ![enumerator.i].stop = TRUE]
    /\ enumerator' = [enumerator EXCEPT !.pc = "join"]
    /\ UNCHANGED <<results, screens, outsideEnum>>

\* handle.join() returns when the thread has ended
EnumJoin ==
    /\ enumerator.pc = "join"
    /\ thumb[enumerator.i].pc = "done"
    /\ enumerator' = [enumerator EXCEPT !.pc = "stop", !.i = @ + 1]
    /\ UNCHANGED <<results, screens, thumb, outsideEnum>>

\* after the last join the thumbnails are applied and the screens returned
EnumReturn ==
    /\ enumerator.pc = "stop"
    /\ enumerator.i > enumerator.source_count
    /\ screens' = ApplyThumbnails(screens, results)
    /\ enumerator' = [enumerator EXCEPT !.pc = "returned"]
    /\ UNCHANGED <<results, thumb, outsideEnum>>

\* capture_thumbnail_thread up to its poll loop: without a capture context of
\* its own, or without the source in it, it stores an empty result and ends
ThumbInit(idx, init) ==
    /\ thumb[idx].pc = "init"
    /\ IF init = "Started"
       THEN /\ thumb' = [thumb EXCEPT ![idx].pc = "poll", ![idx].init = init]
            /\ UNCHANGED results
       ELSE /\ thumb' = [thumb EXCEPT ![idx].pc = "done", ![idx].init = init]
            /\ Push(idx, "")
    /\ UNCHANGED <<enumerator, screens, outsideEnum>>

\* the poll loop receives the stop signal
ThumbStopped(idx) ==
    /\ thumb[idx].pc = "poll"
    /\ thumb[idx].stop
    /\ thumb' = [thumb EXCEPT ![idx].pc = "done"]
    /\ UNCHANGED <<enumerator, results, screens, outsideEnum>>

\* the poll loop times out and requests a frame; the callback stores the
\* thumbnail of a frame, an empty result for a permanent error, and nothing
\* otherwise; the loop ends once a result is stored
ThumbPoll(idx, result) ==
    /\ thumb[idx].pc = "poll"
    /\ ~thumb[idx].stop
    /\ CASE result = "Success" ->
              /\ Push(idx, "jpeg")
              /\ thumb' = [thumb EXCEPT ![idx].pc = "done", ![idx].frames = @ \cup {result}]
         [] result \in {"ErrorPermanent"} ->
              /\ Push(idx, "")
              /\ thumb' = [thumb EXCEPT ![idx].pc = "done", ![idx].frames = @ \cup {result}]
         [] OTHER ->
              /\ thumb' = [thumb EXCEPT ![idx].frames = @ \cup {result}]
              /\ UNCHANGED results
    /\ UNCHANGED <<enumerator, screens, outsideEnum>>

InitEnum ==
    /\ enumerator = [pc |-> "idle", source_count |-> 0, elapsed |-> 0, i |-> 0]
    /\ results = <<>>
    /\ screens = <<>>
    /\ thumb = [idx \in Sources |-> NoThumb]

EnumStep == EnumWait \/ EnumStop \/ EnumJoin \/ EnumReturn

NextEnum ==
    \/ \E capturer \in BOOLEAN, n \in 0..MaxSources : EnumerateSources(capturer, n)
    \/ EnumWait
    \/ EnumStop
    \/ EnumJoin
    \/ EnumReturn
    \/ \E idx \in Sources, init \in InitResults : ThumbInit(idx, init)
    \/ \E idx \in Sources : ThumbStopped(idx)
    \/ \E idx \in Sources, result \in FrameResults : ThumbPoll(idx, result)

\* the application after Application::new and CoreSocket::new
Init ==
    InitCapture /\ InitDispatch /\ InitSocket /\ InitStore /\ InitEnum /\ InitJoin
        /\ InitShare /\ InitSession

\* the application in or outside a room, with or without a stroke in the store
InitInSession ==
    /\ InitCapture
    /\ InitSocket
    /\ InitEnum
    /\ InitJoin
    /\ InitShare
    /\ InitSession
    /\ \E in_room \in BOOLEAN :
          /\ queue = <<>>
          /\ current = NoCmd
          /\ exited = FALSE
          /\ running = TRUE
          /\ nextSeq = [p \in Senders |-> 1]
          /\ arrived = <<>>
          /\ processed = <<>>
          /\ connection_state = IF in_room THEN "Connected" ELSE "Disconnected"
          /\ room_service = in_room
          /\ socket = TRUE
          /\ sent = <<>>
    /\ \E s \in {EmptyStore, start_stroke(EmptyStore, "s1", "p1", "a")} :
          /\ strokes = s.strokes
          /\ stroke_order = s.stroke_order
          /\ creation = s.stroke_order
          /\ ops = Len(s.stroke_order)
          /\ last = IF s = EmptyStore THEN NoOp ELSE Op("start", "s1", "p1", <<"a">>)

\* the same with a client connected that has written its messages
InitServed ==
    InitCapture /\ InitDispatch /\ InitTranslate /\ InitStore /\ InitEnum /\ InitJoin
        /\ InitShare /\ InitSession

SpecDispatch == Init /\ [][NextDispatch]_vars

SpecCapture == Init /\ [][NextCapture]_vars

SpecSocket == Init /\ [][NextSocket]_vars

\* The server task and the reader tasks are tokio tasks: the runtime keeps
\* running a task that can take a step.  Nothing is assumed of the clients
\* and of the application.
SpecSocketLive ==
    /\ SpecSocket
    /\ WF_vars(ServerStep)
    /\ WF_vars(ReaderStep)

SpecTranslate == InitServed /\ [][NextTranslate]_vars

SpecStore == Init /\ [][NextStore]_vars

SpecEnum == Init /\ [][NextEnum]_vars

SpecJoin == Init /\ [][NextJoin]_vars

SpecShare == InitInSession /\ [][NextShare]_vars

SpecPeople == Init /\ [][NextPeople]_vars

SpecAnnotate == Init /\ [][NextAnnotate]_vars

\* A join thread is an OS thread that keeps running, and Room::connect is
\* wrapped in a timeout, so each step of the thread is taken.  Nothing is
\* assumed of the IPC client and of the event loop.
SpecJoinLive == SpecJoin /\ \A t \in JoinThreads : WF_vars(JoinStep(t))

\* a step of the event loop around a join: a command is taken or handled
JoinDispatch ==
    \/ UserEvent
    \/ HandleJoinRoom
    \/ HandleRoomConnected
    \/ HandleConnectionStateChanged
    \/ HandleError
    \/ HandleLeaveRoom

\* The join threads keep running and so does the event loop: a command in its
\* queue is taken and handled.  Nothing is assumed of the IPC client.
SpecJoinFair == SpecJoinLive /\ WF_vars(JoinDispatch)

\* The caller and the thumbnail threads are OS threads that keep running; a
\* thread in its poll loop receives a stop signal that was sent.  Nothing is
\* assumed of the frames a poll delivers.
SpecEnumLive ==
    /\ SpecEnum
    /\ WF_vars(EnumStep)
    /\ \A idx \in Sources :
          /\ WF_vars(\E init \in InitResults : ThumbInit(idx, init))
          /\ WF_vars(ThumbStopped(idx))


(***************************************************************************)
(* PROPERTIES OF THE CAPTURE PIPELINE (checked under SpecCapture)          *)
(***************************************************************************)

\* a step in which the capture callback of thread t runs on result r
CallbackRuns(t, r) ==
    wk[t].pc = "callback" /\ wk[t].res = r /\ wk'[t].pc = "recv"

\* a step in which thread t begins restart_capture
RestartBegins(t) == wk[t].pc = "tick" /\ wk'[t].pc = "restart_sleep"

\* the last call that returned is a stop_capture
LastReturned(calls) ==
    caller.pc = "idle" /\ rets # <<>> /\ rets[Len(rets)] \in calls

\* nothing of a session is left in the capturer
CapturerStopped ==
    /\ ~is_capturing
    /\ current_source = NoSource
    /\ stream_tx = None
    /\ capture_thread = None
    /\ \A t \in Threads : wk[t].pc = "none"

\* C2: with threshold T = MAX_FAILURES = 3 a restart is asked for exactly when
\* the T-th permanent error without a success in between is delivered (and
\* restart attempts remain), never by an earlier error; each restart begun
\* answers one such request, adds one restart attempt and consumes the
\* accumulated errors; a permanent error adds one to the permanent counter and
\* a successful frame resets it to zero.
C2_RestartOncePerThreshold ==
    [][\A t \in Threads :
        /\ CallbackRuns(t, "ErrorPermanent") =>
              /\ wk'[t].failures = wk[t].failures + 1
              /\ wk'[t].needs_restart <=>
                    /\ wk[t].failures = MAX_FAILURES - 1
                    /\ wk[t].restart_attempts < MAX_RESTART_ATTEMPTS
        /\ (\E r \in Results \ {"ErrorPermanent"} : CallbackRuns(t, r)) =>
              ~wk'[t].needs_restart
        /\ CallbackRuns(t, "Success") => wk'[t].failures = 0
        /\ (wk[t].pc # "done" /\ wk'[t].restart_attempts # wk[t].restart_attempts) =>
              /\ RestartBegins(t)
              /\ wk[t].needs_restart
              /\ wk[t].failures = MAX_FAILURES
              /\ wk'[t].restart_attempts = wk[t].restart_attempts + 1
        /\ (wk[t].pc = "restart_sleep" /\ wk'[t].pc = "retry") => wk'[t].failures = 0
        /\ (wk[t].pc \in {"recv", "tick", "callback"} /\ ~wk[t].needs_restart) =>
              wk[t].failures < MAX_FAILURES \/ wk[t].should_stop
      ]_vars

\* a second restart request of a session: three more permanent errors after a restart
C2_Witness ==
    \E t \in Threads :
        /\ wk[t].pc = "recv" /\ wk[t].res = "ErrorPermanent"
        /\ wk[t].needs_restart /\ wk[t].failures = MAX_FAILURES
        /\ wk[t].restart_attempts = 1

\* C3 as stated: a session that ends on its own under nothing but permanent
\* failures has performed exactly MAX_RESTART_ATTEMPTS restart attempts, and
\* once its stop flag is set it neither restarts nor requests a frame.
C3_ExactlyBoundRestarts ==
    \A t \in Threads :
        /\ (wk[t].pc = "done" /\ wk[t].only_perm
              /\ wk[t].exit \in {"should_stop", "restart_failed"}) =>
              wk[t].restart_attempts = MAX_RESTART_ATTEMPTS
        /\ wk[t].should_stop => wk[t].pc \notin {"callback", "restart_sleep", "retry"}

\* C3 (amended): a session performs at most MAX_RESTART_ATTEMPTS restart
\* attempts; under nothing but permanent failures it is torn down by the bound
\* after exactly MAX_RESTART_ATTEMPTS of them, unless a restart fails because
\* the source is absent on all of its tries, which ends the session at that
\* (first to fifth) attempt.  Once the stop flag is set the worker neither
\* restarts nor requests a frame, and a worker that ended stays ended.
C3_AtMostBoundRestarts ==
    /\ [](\A t \in Threads :
            /\ wk[t].restart_attempts <= MAX_RESTART_ATTEMPTS
            /\ (wk[t].pc = "done" /\ wk[t].only_perm /\ wk[t].exit = "should_stop") =>
                  wk[t].restart_attempts = MAX_RESTART_ATTEMPTS
            /\ (wk[t].pc = "done" /\ wk[t].exit = "restart_failed") =>
                  /\ wk[t].restart_attempts \in 1..MAX_RESTART_ATTEMPTS
                  /\ wk[t].retry_num = MAX_RESTART_ATTEMPTS - 1
            /\ wk[t].should_stop => wk[t].pc \notin {"callback", "restart_sleep", "retry"})
    /\ [][\A t \in Threads :
            wk[t].pc = "done" =>
                \/ wk'[t] = wk[t]
                \/ wk'[t].pc \in {"none", "init"} /\ caller.pc = "join" /\ caller.thr = t
         ]_vars

\* a session torn down by the bound after permanent failures only
C3_Witness ==
    \E t \in Threads :
        /\ wk[t].pc = "done" /\ wk[t].exit = "should_stop" /\ wk[t].only_perm
        /\ wk[t].restart_attempts = MAX_RESTART_ATTEMPTS

\* C4: a session torn down because its restart attempts reached the bound has
\* reported exactly one terminal Error to the dispatcher.
C4_OneTerminalError ==
    \A t \in Threads :
        (/\ wk[t].pc = "done" /\ wk[t].exit = "should_stop" /\ wk[t].proxy
         /\ wk[t].failures >= MAX_FAILURES
         /\ wk[t].restart_attempts >= MAX_RESTART_ATTEMPTS) =>
            Len(wk[t].errors) = 1

\* C5 as stated: a successful frame resets the transient, the permanent and
\* the restart-attempt counter to zero.
C5_SuccessResetsAllThree ==
    [][\A t \in Threads :
        CallbackRuns(t, "Success") =>
            /\ wk'[t].temp_error_count = 0
            /\ wk'[t].failures = 0
            /\ wk'[t].restart_attempts = 0
      ]_vars

\* C5 (amended): a successful frame resets the transient and the permanent
\* counter to zero and leaves the restart-attempt counter as it is.
C5_SuccessResetsFailureCounts ==
    [][\A t \in Threads :
        CallbackRuns(t, "Success") =>
            /\ wk'[t].temp_error_count = 0
            /\ wk'[t].failures = 0
            /\ wk'[t].restart_attempts = wk[t].restart_attempts
      ]_vars

\* a success delivered after a restart, with both failure counts reset
C5_Witness ==
    \E t \in Threads :
        /\ wk[t].pc = "recv" /\ wk[t].res = "Success"
        /\ wk[t].restart_attempts = 2
        /\ wk[t].failures = 0 /\ wk[t].temp_error_count = 0

\* C6: a transient error adds one to the transient counter and changes nothing
\* else of the session: the permanent counter, the restart attempts, the
\* needs-restart and stop flags and the errors reported stay as they are.  So
\* as long as a session saw transient errors only it neither restarts nor ends.
C6_TransientOnlyCounts ==
    /\ [][\A t \in Threads :
            CallbackRuns(t, "ErrorTemporary") =>
                wk'[t] = [wk[t] EXCEPT !.pc = "recv",
                                       !.temp_error_count = @ + 1,
                                       !.only_perm = FALSE]
         ]_vars
    /\ [](\A t \in Threads :
            (wk[t].failures = 0 /\ wk[t].restart_attempts = 0
               /\ wk[t].res \in {"none", "ErrorTemporary"}) =>
                /\ ~wk[t].needs_restart /\ ~wk[t].should_stop
                /\ wk[t].exit \notin {"should_stop", "restart_failed"})

\* transient errors delivered between permanent ones
C6_Witness ==
    \E t \in Threads :
        /\ wk[t].pc = "recv" /\ wk[t].res = "ErrorTemporary"
        /\ wk[t].temp_error_count = 2 /\ wk[t].failures = 2
        /\ ~wk[t].needs_restart /\ ~wk[t].should_stop

\* C7: when stop_capture has returned no worker thread is left (the one of
\* the session was signalled and joined), is_capturing is false and the
\* current source is cleared.
C7_StopJoinsWorker ==
    LastReturned({"stop_joined", "stop_noop"}) =>
        /\ ~is_capturing
        /\ current_source = NoSource
        /\ \A t \in Threads : wk[t].pc = "none" /\ ~rx[t].sender

\* a stop_capture that joined the worker of an active session has returned
C7_Witness == LastReturned({"stop_joined"}) /\ event_loop_proxy

\* C8: at most one capture worker thread exists at any time, and it is the
\* one the capturer holds the handle of.
C8_OneWorker ==
    /\ Cardinality({t \in Threads : wk[t].pc # "none"}) <= 1
    /\ \A t \in Threads : wk[t].pc # "none" =>
          \/ capture_thread = t
          \/ caller.pc = "join" /\ caller.thr = t

\* start_capture on an active session returned, with the new worker running
C8_Witness ==
    /\ caller.pc = "idle"
    /\ rets = <<"start_ok", "start_ok">>
    /\ \E t \in Threads : wk[t].pc = "callback"

\* the stop signal is in the channel of thread t
StopSent(t) == \E i \in 1..Len(rx[t].msgs) : rx[t].msgs[i] = "Stop"

\* stop_capture returns only with its worker ended
ReturnsAfterJoin ==
    (caller.pc = "join" /\ caller'.pc = "idle" /\ caller.thr # None) =>
        wk[caller.thr].pc = "done"

\* C9 as stated: with the stop signal sent while needs-restart is set and
\* restart_capture not yet entered, the worker does not perform that restart;
\* and stop_capture does not return before the worker is joined.
C9_StopPreemptsRestart ==
    [][/\ \A t \in Threads :
            (StopSent(t) /\ wk[t].needs_restart /\ wk[t].pc \in {"recv", "tick"}) =>
                ~RestartBegins(t)
       /\ ReturnsAfterJoin
      ]_vars

\* C9 (amended): with the stop signal sent while needs-restart is set and
\* before the worker's wait on its channel (recv_timeout) has timed out for
\* that tick, the worker exits on the signal without performing the restart;
\* a signal sent after the time-out is taken only after that restart.  In
\* either case stop_capture does not return before the worker is joined.
C9_StopPreemptsAtPoll ==
    [][/\ \A t \in Threads :
            (StopSent(t) /\ wk[t].needs_restart /\ wk[t].pc = "recv") =>
                \/ wk'[t] = wk[t]
                \/ wk'[t] = [wk[t] EXCEPT !.pc = "done", !.exit = "stop"]
       /\ ReturnsAfterJoin
      ]_vars

\* a worker that left on the stop signal with its restart still pending
C9_Witness ==
    \E t \in Threads :
        /\ wk[t].pc = "done" /\ wk[t].exit = "stop"
        /\ wk[t].needs_restart /\ wk[t].failures = MAX_FAILURES

\* C10: a stop_capture called with no session active returns at once and
\* changes nothing; the second of two stop_capture calls in succession is such
\* a call, and after either the capturer is stopped: not capturing, no source,
\* no worker.
C10_StopIdempotent ==
    /\ [][(rets' # rets /\ rets'[Len(rets')] = "stop_noop") =>
             /\ caller.pc = "idle" /\ caller'.pc = "idle"
             /\ UNCHANGED <<capturerVars, wk, rx>>
         ]_vars
    /\ []((/\ Len(rets) = 2
           /\ rets[1] \in {"stop_joined", "stop_noop"}
           /\ rets[2] \in {"stop_joined", "stop_noop"}) =>
              rets[2] = "stop_noop")
    /\ [](LastReturned({"stop_noop"}) => CapturerStopped)

\* stop_capture called twice in succession on an active session
C10_Witness ==
    /\ caller.pc = "idle"
    /\ rets = <<"stop_joined", "stop_noop">>
    /\ CapturerStopped

\* C12: a failure of a subsystem call becomes an Error command: a worker
\* that ended because the capture context could not be created, or because
\* the source was not found, pushed one Error command to the dispatcher.
C12_WorkerFailureBecomesError ==
    \A t \in Threads :
        (wk[t].pc = "done" /\ wk[t].exit \in {"create_failed", "source_not_found"}) =>
            Len(wk[t].errors) = 1



(***************************************************************************)
(* PROPERTIES OF THE DISPATCHER (checked under SpecDispatch)               *)
(***************************************************************************)

\* the command being handled, as a sequence
InHand == IF current = NoCmd THEN <<>> ELSE <<current>>

\* the per-producer and arrival order of the commands handled
HandledInOrder ==
    /\ arrived = processed \o InHand \o queue
    /\ \A i, j \in 1..Len(processed) :
          (i < j /\ processed[i].prod = processed[j].prod) =>
              processed[i].seq < processed[j].seq

\* C1 as stated: commands are handled one at a time in the order they reached
\* the queue, those of one producer in the order it submitted them, and the
\* Terminate command is the last command handled.
C1_NothingAfterTerminate ==
    /\ HandledInOrder
    /\ \A i \in 1..Len(processed) :
          processed[i].kind = "Terminate" => i = Len(processed) /\ current = NoCmd

\* C1 (amended): commands are handled one at a time in the order they reached
\* the queue (handled, in hand and queued commands together are the arrivals
\* in their order), those of one producer in the order it submitted them.
\* Handling Terminate shuts the application down and asks the event loop to
\* exit; no command is handled or accepted once the loop has returned, but a
\* command the loop still hands over before it returns is handled like any
\* other.
C1_ProcessedInArrivalOrder ==
    /\ [](/\ HandledInOrder
          /\ \A i \in 1..Len(processed) :
                processed[i].kind = "Terminate" => exited /\ ~socket
          /\ ~running => exited /\ current = NoCmd)
    /\ [][~running => UNCHANGED <<queue, current, arrived, processed>>]_vars

\* the loop returned after Terminate and a later command of each producer's
\* were handled, with a command left in the queue
C1_Witness ==
    /\ ~running
    /\ queue # <<>>
    /\ \A p \in Producers : \E i \in 1..Len(processed) : processed[i].prod = p
    /\ \E i \in 1..Len(processed) :
          processed[i].kind = "Terminate" /\ i < Len(processed)

\* a step in which the handler of a command of the kinds ks returns
Handles(ks) == current.kind \in ks /\ processed' = Append(processed, current)

\* the kinds of command
Kinds == UNION {Submits(p) : p \in Producers} \cup
            {"PermissionStateChanged", "ConnectionStateChanged", "Error"}

\* only Terminate stops the loop: no other command, an Error or a command
\* whose subsystem call failed included, asks the event loop to exit
OnlyTerminateStops ==
    /\ [](exited => \E i \in 1..Len(processed) : processed[i].kind = "Terminate")
    /\ [][/\ Handles(Kinds \ {"Terminate"}) => UNCHANGED <<exited, running>>
          /\ Handles({"StartScreenShare"}) =>
                arrived' = Append(arrived, Cmd("self", "Error"))
         ]_vars

\* C11 as stated: only Terminate stops the dispatch loop, and each Error
\* command processed is reported as an error notification on the IPC channel.
C11_EveryErrorReported ==
    /\ OnlyTerminateStops
    /\ [][Handles({"Error"}) => sent' = Append(sent, "error")]_vars

\* C11 (amended): only Terminate stops the dispatch loop, and each Error
\* command processed while the application holds the IPC socket is reported
\* as an error notification on it; an Error command processed after
\* Terminate has taken the socket is only logged.
C11_ErrorReportedWhileSocket ==
    /\ OnlyTerminateStops
    /\ [][Handles({"Error"}) =>
             IF socket THEN sent' = Append(sent, "error") ELSE sent' = sent]_vars
    /\ [](~socket => exited)

\* the Error of a failed start_capture was processed and reported, and a
\* command was processed after it, the loop still running
C11_Witness ==
    /\ ~exited /\ running /\ socket
    /\ \E i \in 1..Len(processed) :
          /\ processed[i].kind = "Error"
          /\ i < Len(processed)
          /\ \E j \in 1..(i - 1) : processed[j].kind = "StartScreenShare"
    /\ \E i \in 1..Len(sent) : sent[i] = "error"

(***************************************************************************)
(* PROPERTIES OF THE IPC CHANNEL (checked under SpecSocket, SpecSocketLive *)
(* and SpecTranslate)                                                      *)
(***************************************************************************)

\* a step in which the reader task of client c takes a line of the set ls
ReadsLine(c, ls) ==
    /\ reader[c] = "running"
    /\ Len(handled') = Len(handled) + 1
    /\ handled'[Len(handled')].conn = c
    /\ handled'[Len(handled')].line \in ls

\* the reader of c goes on after a step: the task runs, the connection is as
\* it was, the line is consumed and the lines behind it wait to be read
ReaderGoesOn(c) ==
    /\ reader'[c] = "running"
    /\ conns'[c] = [conns[c] EXCEPT !.inbox = Tail(@)]
    /\ UNCHANGED <<server, serving>>

\* a valid line with an event is translated and submitted
ValidLineSubmitted(c) ==
    \A line \in ClientLines \ BadLines :
        (ReadsLine(c, {line}) /\ Translate(line) # <<>>) =>
            /\ arrived' = Append(arrived, Cmd("ipc", Translate(line)[1].kind))
            /\ queue' = Append(queue, Cmd("ipc", Translate(line)[1].kind))

C14_WireInSendOrder ==
    \A c \in Clients :
        \A i, j \in 1..Len(conns[c].wire) :
            i < j => conns[c].wire[i].id < conns[c].wire[j].id

\* two messages handed to send() in the same situation were written to one client
C14_Witness ==
    \E c \in Clients :
        /\ Len(conns[c].wire) = 2
        /\ conns[c].wire[1].up = conns[c].wire[2].up

\* C15: a message handed to send() while no client was connected is never
\* written to a client.
C15_NoDeliveryAfterReconnect ==
    \A c \in Clients :
        \A i \in 1..Len(conns[c].wire) : conns[c].wire[i].at # {}

\* C16: once the client being served has disconnected and shutdown is not
\* requested, the server leaves that connection and accepts again.
C16_ReacceptsAfterDisconnect ==
    \A c \in Clients :
        (serving = c /\ ~conns[c].open /\ reader[c] = "ended" /\ ~shutdown)
            ~> (serving # c \/ shutdown)

\* C17: after shutdown is requested run_server ends and the socket file is
\* removed.
C17_ShutdownEndsServer ==
    shutdown ~> (server = "ended" /\ ~socket_file)

CommandFor(type) ==
    CASE type = "join_room" -> "JoinRoom"
      [] type = "leave_room" -> "LeaveRoom"
      [] type = "get_available_content" -> "GetAvailableContent"
      [] type = "start_screen_share" -> "StartScreenShare"
      [] type = "stop_screen_share" -> "StopScreenShare"
      [] type = "send_annotation" -> "StrokeStart"
      [] type = "delete_annotation" -> "StrokeDelete"
      [] type = "clear_annotations" -> "ClearAllAnnotations"
      [] type = "cursor_move" -> "RemoteCursorPosition"
      [] type = "cursor_hide" -> "RemoteCursorPosition"
      [] type = "set_mic_muted" -> "SetMicrophoneMuted"
      [] type = "set_camera_enabled" -> "SetCameraEnabled"
      [] type = "set_audio_input_device" -> "SetAudioInputDevice"
      [] type = "set_video_input_device" -> "SetVideoInputDevice"
      [] type = "check_permissions" -> "CheckPermissions"
      [] type = "request_screen_recording_permission" -> "RequestScreenRecordingPermission"
      [] type = "ping" -> "Ping"
      [] type = "shutdown" -> "Terminate"

\* the commands the IPC reader submitted, in order
RECURSIVE KindsOf(_)
KindsOf(log) ==
    IF log = <<>> THEN <<>>
    ELSE (IF Head(log).event = <<>> THEN <<>> ELSE <<Head(log).event[1].kind>>)
             \o KindsOf(Tail(log))

\* the commands of the IPC reader that reached the queue, in order
IpcArrived == SelectSeq(arrived, LAMBDA cmd : cmd.prod = "ipc")

\* what was made of a message that has a command: the command of its type,
\* with the default config for a start_screen_share that gives none
Becomes(h) ==
    /\ h.res = "ok"
    /\ h.event # <<>>
    /\ h.event[1].kind = CommandFor(h.line.type)
    /\ (h.line.type = "start_screen_share" /\ h.line.arg = <<>>) =>
          h.event[1].arg = <<DefaultConfig>>
    /\ (h.line.type = "start_screen_share" /\ h.line.arg # <<>>) =>
          h.event[1].arg = h.line.arg

\* C19 as stated: every valid message of a documented type is translated
\* into the command of its type and submitted.
C19_EveryMessageBecomesItsCommand ==
    /\ \A i \in 1..Len(handled) : Becomes(handled[i])
    /\ Len(IpcArrived) = Len(handled)

\* C19 (amended): every valid message of a documented type other than ping,
\* and other than a send_annotation without points, is translated into the
\* command of its type and submitted, in the order read: shutdown becomes
\* Terminate, start_screen_share without a config carries the default config
\* (and with one, that config), send_annotation with points becomes a
\* StrokeStart at its first point.  For a ping and for a send_annotation
\* without points handle_message succeeds and submits nothing.
C19_MessagesBecomeCommands ==
    /\ \A i \in 1..Len(handled) :
          LET h == handled[i]
          IN  IF h.line.type = "ping" \/ (h.line.type = "send_annotation" /\ h.line.arg = <<>>)
              THEN h.res = "ok" /\ h.event = <<>>
              ELSE /\ Becomes(h)
                   /\ h.line.type = "send_annotation" =>
                         h.event[1].arg = <<"local", h.line.arg[1]>>
                   /\ h.line.type = "shutdown" => h.event[1].kind = "Terminate"
    /\ Len(IpcArrived) = Len(KindsOf(handled))
    /\ \A i \in 1..Len(IpcArrived) :
          IpcArrived[i].kind = KindsOf(handled)[i] /\ IpcArrived[i].seq = i

\* a start_screen_share without a config and a shutdown were read and submitted
C19_Witness ==
    /\ Len(handled) = 2
    /\ handled[1].line = Line("start_screen_share", <<>>)
    /\ handled[1].event = Event("StartScreenShare", <<DefaultConfig>>)
    /\ handled[2].line.type = "shutdown"
    /\ Len(IpcArrived) = 2
    /\ IpcArrived[2].kind = "Terminate"

\* C20: when a ping of a client is handled a pong is handed to the channel
\* of outbound messages.
C20_PingAnsweredWithPong ==
    [][\A c \in Clients :
          ReadsLine(c, {Line("ping", <<>>)}) =>
              /\ Len(outgoing') = Len(outgoing) + 1
              /\ outgoing'[Len(outgoing')].kind = "pong"
      ]_vars

(***************************************************************************)
(* PROPERTIES OF THE ANNOTATION STORE                                      *)
(***************************************************************************)
Range(seq) == {seq[i] : i \in 1..Len(seq)}

\* the ids of the strokes in render order
RenderIds == [i \in 1..Len(Strokes) |-> Strokes[i].id]

\* C21: after every sequence of start, update, complete, delete, clear and
\* deleteByAuthor, the strokes in render order are exactly the strokes in the
\* store, each once, oldest creation first.
C21_RenderIsStoreInCreationOrder ==
    /\ Len(Strokes) = StoreLen
    /\ RenderIds = creation

\* C22: the id -> stroke map and the id list hold the same ids in every
\* reachable state; after clear both are empty, and after delete(id) the id is
\* in neither.
C22_MapAndOrderAgree ==
    /\ Range(stroke_order) = DOMAIN strokes
    /\ last.op = "clear" => DOMAIN strokes = {} /\ stroke_order = <<>>
    /\ last.op = "delete" => last.id \notin DOMAIN strokes \cup Range(stroke_order)

\* a delete of a stroke that was started twice has been applied
C22_Witness ==
    /\ last.op = "delete"
    /\ ops = 4
    /\ DOMAIN strokes = {"s2"}
    /\ stroke_order = <<"s2">>

\* the render order without the strokes of the ids in gone
Survivors(gone) == SelectSeq(Strokes, LAMBDA st : st.id \notin gone)

\* C23: deleteByAuthor(a) removes exactly the strokes whose author is a; every
\* other stroke stays with its points and completed flag, and the survivors
\* keep their relative render order.
C23_DeleteByAuthorRemovesExactlyAuthors ==
    [][last'.op = "deleteByAuthor" =>
        LET mine == {id \in DOMAIN strokes : strokes[id].participant_id = last'.participant_id}
        IN  /\ DOMAIN strokes' = DOMAIN strokes \ mine
            /\ \A id \in DOMAIN strokes' : strokes'[id] = strokes[id]
            /\ Strokes' = Survivors(mine)]_vars

\* deleteByAuthor removed one author's stroke and left another author's
C23_Witness ==
    /\ last.op = "deleteByAuthor"
    /\ last.participant_id = "p1"
    /\ DOMAIN strokes = {"s2"}
    /\ strokes["s2"].participant_id = "p2"
    /\ ops = 3

\* C24: update(id, points) appends the points, in order, to that stroke and
\* changes nothing else; with an id not in the store it changes nothing.
C24_UpdateAppendsToOneStroke ==
    [][last'.op = "update" =>
        /\ stroke_order' = stroke_order
        /\ DOMAIN strokes' = DOMAIN strokes
        /\ \A id \in DOMAIN strokes :
              strokes'[id] =
                  IF id = last'.id
                  THEN [strokes[id] EXCEPT !.points = @ \o last'.points]
                  ELSE strokes[id]]_vars

\* an update appended two points to one of two strokes
C24_Witness ==
    /\ last.op = "update"
    /\ last.points = <<"a", "b">>
    /\ last.id \in DOMAIN strokes
    /\ DOMAIN strokes = StrokeIds
    /\ strokes[last.id].points = <<"b", "a", "b">>

\* an update with an id the store does not hold was applied to a store that
\* holds a stroke
C24_WitnessUnknown ==
    /\ last.op = "update"
    /\ last.id \notin DOMAIN strokes
    /\ DOMAIN strokes # {}

(***************************************************************************)
(* PROPERTIES OF SOURCE ENUMERATION                                        *)
(***************************************************************************)
EnumReturned == enumerator.pc = "returned"

\* C29: an enumeration in which the thread of one source fails to create its
\* capture context returns a descriptor for every source; the failing source's
\* descriptor has no thumbnail value at all, and a source whose thread stored
\* a thumbnail keeps it.
C29_FailedSourceHasNoThumbnail ==
    EnumReturned /\ enumerator.source_count > 0 =>
        /\ Len(screens) = enumerator.source_count
        /\ \A idx \in 1..enumerator.source_count :
              /\ screens[idx].id = idx
              /\ thumb[idx].init = "NoCapturer" => screens[idx].thumbnail = NoThumbnail
              /\ "Success" \in thumb[idx].frames => screens[idx].thumbnail = Some("jpeg")

\* C30: an enumeration always returns; when it has returned, a source whose
\* thread never produced a frame has no thumbnail value, and every thumbnail
\* a thread stored is in the descriptor of its source.
C30_ReturnsWhatCompleted ==
    EnumReturned /\ enumerator.source_count > 0 =>
        \A idx \in 1..enumerator.source_count :
            IF "Success" \in thumb[idx].frames
            THEN screens[idx].thumbnail = Some("jpeg")
            ELSE screens[idx].thumbnail = NoThumbnail

\* a call of enumerate_sources comes back
EnumerationReturns == (enumerator.pc # "idle") ~> EnumReturned

\* the wait ended by the timeout while a thread was still polling, and the
\* enumeration returned without a thumbnail for its source
StalledSourceReturned ==
    /\ EnumReturned
    /\ enumerator.elapsed > TimeoutSleeps
    /\ \E idx \in 1..enumerator.source_count :
          /\ thumb[idx].init = "Started"
          /\ thumb[idx].frames \subseteq {"NoCallback", "ErrorTemporary", "EmptyFrame", "NotEncoded"}
          /\ screens[idx].thumbnail = NoThumbnail
    /\ \E idx \in 1..enumerator.source_count : screens[idx].thumbnail = Some("jpeg")

(***************************************************************************)
(* PROPERTIES OF ROOM JOIN                                                 *)
(***************************************************************************)
\* the commands thread t has put into the queue, in order
ArrivedFrom(t) == SelectSeq(arrived, LAMBDA c : c.prod = t)

\* thread t has reported a result as its last command
ReportedAs(t, state) ==
    LET mine == ArrivedFrom(t)
    IN  /\ mine # <<>>
        /\ mine[Len(mine)].kind = "ConnectionStateChanged"
        /\ mine[Len(mine)].arg = state

\* the report of thread t is the one of its result
Reported(t) ==
    IF join[t].result = "Connected"
    THEN ReportedAs(t, "Connected")
    ELSE /\ ReportedAs(t, "Disconnected")
         /\ Len(ArrivedFrom(t)) >= 2
         /\ ArrivedFrom(t)[Len(ArrivedFrom(t)) - 1].kind = "Error"

Finishes(kind) == current.kind = kind /\ current' = NoCmd

\* the dispatcher itself sends this event in this step
SelfSends(kind, arg) ==
    /\ Len(arrived') = Len(arrived) + 1
    /\ arrived'[Len(arrived')] = CmdOf("self", kind, arg)

\* this message is handed to the socket in this step
Notifies(msg) == sent' = Append(sent, msg)

\* no capture session: no worker thread, no channel, no handle
PipelineStopped ==
    /\ caller.pc = "idle"
    /\ ~is_capturing
    /\ stream_tx = None
    /\ capture_thread = None
    /\ \A t \in Threads : wk[t].pc = "none"

\* the last command handled is a StopScreenShare that ended a session
SessionEnded ==
    /\ processed # <<>>
    /\ processed[Len(processed)].kind = "StopScreenShare"
    /\ LastRet = "stop_joined"

\* C25: the annotation store is cleared when a capture session ends: once a
\* StopScreenShare command has been processed, the store holds no stroke.
C25_StoreClearedWhenSessionEnds == SessionEnded => StoreLen = 0 /\ Strokes = <<>>

\* C26: StopScreenShare first stops the capture pipeline (its worker joined),
\* then unpublishes the track, then sends ScreenShareStateChanged(false);
\* processing that command sets sharing to false, sends the share-stopped
\* notification to IPC and requests the overlay's teardown.
C26_StopInOrder ==
    [][/\ screen_share_track /\ ~screen_share_track' =>
              current.kind = "StopScreenShare" /\ PipelineStopped
       /\ SelfSends("ScreenShareStateChanged", "false") =>
              /\ Finishes("StopScreenShare")
              /\ PipelineStopped
              /\ ~screen_share_track
       /\ Finishes("StopScreenShare") => SelfSends("ScreenShareStateChanged", "false")
       /\ Finishes("ScreenShareStateChanged") /\ current.arg = "false" =>
              /\ ~is_sharing'
              /\ Notifies("screen_share_stopped")
              /\ SelfSends("DestroyOverlay", "")]_vars

\* in a room, a session that was shared has been stopped: its worker is
\* joined, its track unpublished, the share-stopped notification sent and the
\* overlay's teardown requested
C26_Witness ==
    /\ room_service
    /\ LastRet = "stop_joined"
    /\ PipelineStopped
    /\ ~screen_share_track
    /\ ~is_sharing
    /\ \E i \in 1..Len(processed) :
          processed[i].kind = "ScreenShareStateChanged" /\ processed[i].arg = "true"
    /\ sent = <<"screen_share_started", "screen_share_stopped">>
    /\ \E i \in 1..Len(arrived) : arrived[i].kind = "DestroyOverlay"

\* start_capture was called for the command in hand and returned Ok
StartSucceeded == handler = "start_capture" /\ LastRet = "start_ok"

\* C27: a StartScreenShare command sends ScreenShareStateChanged(true), whose
\* processing sends the share-started notification to IPC and requests the
\* overlay's creation, if and only if the pipeline start succeeded; when the
\* track publishing or the capture start fails, no StateChanged(true) is
\* sent, the sharing state stays false and no overlay is requested.
C27_StartedIffPipelineStarted ==
    [][/\ Finishes("StartScreenShare") =>
              /\ SelfSends("ScreenShareStateChanged", "true") <=> StartSucceeded
              /\ ~StartSucceeded => \E code \in {"publish_failed", "capture_failed"} :
                                        SelfSends("Error", code)
              /\ ~is_sharing => ~is_sharing'
       /\ SelfSends("ScreenShareStateChanged", "true") => Finishes("StartScreenShare")
       /\ Finishes("ScreenShareStateChanged") /\ current.arg = "true" =>
              /\ is_sharing'
              /\ Notifies("screen_share_started")
              /\ SelfSends("CreateOverlay", "")
       /\ (~is_sharing /\ is_sharing') \/ SelfSends("CreateOverlay", "")
                \/ Notifies("screen_share_started") =>
              Finishes("ScreenShareStateChanged") /\ current.arg = "true"]_vars

\* a share started in a room: the track published, the capture started, the
\* notification sent and the overlay requested
C27_Witness ==
    /\ room_service
    /\ screen_share_track
    /\ is_capturing
    /\ is_sharing
    /\ sent = <<"screen_share_started">>
    /\ \E i \in 1..Len(arrived) : arrived[i].kind = "CreateOverlay"

\* both failures happened: the publishing failed for one command, the capture
\* start for the other, and nothing is shared
C27_WitnessFailed ==
    /\ \E i \in 1..Len(processed) :
          processed[i].kind = "Error" /\ processed[i].arg = "publish_failed"
    /\ \E i \in 1..Len(processed) :
          processed[i].kind = "Error" /\ processed[i].arg = "capture_failed"
    /\ ~is_sharing
    /\ sent = <<"error", "error">>

(***************************************************************************)
(* MORE PROPERTIES OF THE ANNOTATION STORE                                 *)
(***************************************************************************)
\* C37: every stroke id is at most once in the render-order list, so strokes()
\* returns as many strokes as len() counts, also after start_stroke with an
\* id the store already holds.
C37_EachIdOnceInOrder ==
    /\ \A i, j \in 1..Len(stroke_order) : stroke_order[i] = stroke_order[j] => i = j
    /\ Len(Strokes) = StoreLen

(***************************************************************************)
(* MORE PROPERTIES OF THE CAPTURE PIPELINE (checked under SpecCapture)     *)
(***************************************************************************)
\* C39: of the results handed to the capture callback only a successful frame
\* lowers the permanent-error counter.  A transient error leaves the counter
\* and the needs-restart flag as they are, so permanent errors with transient
\* ones between them add up: the permanent error delivered at MAX_FAILURES - 1
\* asks for the restart (while restart attempts remain), however many
\* transient errors came since the last reset.
C39_OnlySuccessResetsFailures ==
    [][\A t \in Threads : \A r \in Results :
        CallbackRuns(t, r) =>
            /\ wk'[t].failures < wk[t].failures => r = "Success"
            /\ r = "ErrorTemporary" =>
                  /\ wk'[t].failures = wk[t].failures
                  /\ wk'[t].needs_restart = wk[t].needs_restart
            /\ (/\ r = "ErrorPermanent" /\ ~wk[t].should_stop
                /\ wk[t].failures = MAX_FAILURES - 1
                /\ wk[t].temp_error_count > 0
                /\ wk[t].restart_attempts < MAX_RESTART_ATTEMPTS) =>
                  wk'[t].needs_restart /\ wk'[t].failures = MAX_FAILURES
      ]_vars

\* permanent, permanent, transient delivered since the last reset: the
\* transient error left the two failures counted
C39_Witness ==
    \E t \in Threads :
        /\ wk[t].pc = "recv" /\ wk[t].res = "ErrorTemporary"
        /\ wk[t].temp_error_count = 1 /\ wk[t].failures = MAX_FAILURES - 1
        /\ wk[t].restart_attempts = 0 /\ ~wk[t].needs_restart

\* C34: restart_capture resets the permanent and the transient counter, then
\* looks for the source up to MAX_RESTART_ATTEMPTS times.  Found on a try: the
\* needs-restart flag is cleared and the worker goes on to its next frame.
\* Absent on every try: the restart fails after the last try, one
\* restart_failed Error is reported and the worker loop ends.
C34_RestartResetsThenRetries ==
    [][\A t \in Threads :
        /\ (wk[t].pc = "restart_sleep" /\ wk'[t].pc = "retry") =>
              wk'[t].failures = 0 /\ wk'[t].temp_error_count = 0
        /\ wk[t].pc = "retry" =>
              /\ wk'[t].pc \in {"retry", "callback", "done"}
              /\ wk[t].retry_num < MAX_RESTART_ATTEMPTS
              /\ wk'[t].pc = "callback" => ~wk'[t].needs_restart
              /\ wk'[t].pc = "done" =>
                    /\ wk[t].retry_num = MAX_RESTART_ATTEMPTS - 1
                    /\ wk'[t].exit = "restart_failed"
                    /\ wk'[t].errors = Append(wk[t].errors, "restart_failed")
      ]_vars

(***************************************************************************)
(* MORE PROPERTIES OF SCREEN SHARING (checked under SpecShare)             *)
(***************************************************************************)
\* the guard of self.screen_capturer.lock() lives over the capturer call of
\* handle_start_screen_share and handle_stop_screen_share
CapturerLockHeld == handler \in {"start_capture", "stop_capture"}

\* the thread that called the capturer waits in handle.join() for a worker
\* that has not ended
BlockedInJoin ==
    caller.pc = "join" /\ caller.thr # None /\ ~JoinReady(caller.thr)

\* the worker of the session in being: the thread whose handle the capturer
\* holds, running, on the current source
WorkerAlive ==
    /\ capture_thread # None
    /\ wk[capture_thread].pc \notin {"none", "done"}
    /\ ParseId(current_source) = <<wk[capture_thread].source>>

\* C31: no lock is held across a blocking wait: in no state does the thread
\* that holds the capturer lock wait in the join of the worker thread.
C31_NoLockAcrossBlockingWait == ~(CapturerLockHeld /\ BlockedInJoin)

\* C32: the dispatch loop waits on nothing but its queue: while a command is
\* being handled the dispatcher never waits for a capture worker, whatever
\* that worker is doing (a frame, the sleep or the tries of a restart).
C32_DispatchNeverWaits ==
    \A t \in Threads :
        ~(current # NoCmd /\ caller.pc = "join" /\ caller.thr = t /\ wk[t].pc # "done")

\* C35: while the capturer reports is_capturing and the host UI was told that
\* sharing started, and no capturer call is in progress, the worker thread of
\* the current source is alive.
C35_SharingMeansWorkerAlive ==
    (is_capturing /\ is_sharing /\ caller.pc = "idle" /\ handler = "idle") => WorkerAlive

\* C38: a StartScreenShare that published the track and whose start_capture
\* then returned an error leaves no track published and no session active.
C38_FailedStartLeavesNothing ==
    [][(/\ Finishes("StartScreenShare")
        /\ room_service
        /\ handler = "start_capture"
        /\ LastRet = "start_err") =>
            ~screen_share_track' /\ ~is_capturing']_vars

(***************************************************************************)
(* MORE PROPERTIES OF THE ROOM JOIN                                        *)
(***************************************************************************)
\* the JoinRoom commands that arrived
JoinsIssued == {i \in 1..Len(arrived) : arrived[i].kind = "JoinRoom"}

\* LeaveRoom was processed after the one JoinRoom issued, and the connect
\* attempt of that JoinRoom is still running
LeftDuringConnect ==
    /\ Cardinality(JoinsIssued) = 1
    /\ \E i, j \in 1..Len(processed) :
          /\ i < j
          /\ processed[i].kind = "JoinRoom"
          /\ processed[j].kind = "LeaveRoom"
    /\ \E t \in JoinThreads : join[t].pc = "new"

\* C36: LeaveRoom wins over a join in flight: when LeaveRoom was processed
\* while the connect attempt of the JoinRoom before it was running, and no
\* further JoinRoom is issued, the connection state ends up Disconnected with
\* no room service stored, and stays so.
C36_LeaveWinsOverJoin ==
    [](LeftDuringConnect /\ [](Cardinality(JoinsIssued) = 1) =>
          <>[](connection_state = "Disconnected" /\ ~room_service))

(***************************************************************************)
(* PROPERTIES OF THE SESSION RECORDS                                       *)
(***************************************************************************)
\* the AnnotationPermissionChanged command handled last carried enabled = false
AnnotationsDisabled ==
    \E i \in 1..Len(processed) :
        /\ processed[i].kind = "AnnotationPermissionChanged"
        /\ processed[i].arg = "false"
        /\ \A j \in (i + 1)..Len(processed) :
              processed[j].kind # "AnnotationPermissionChanged"

JoinLeaves ==
    SelectSeq(processed,
              LAMBDA c : c.kind \in {"ParticipantConnected", "ParticipantDisconnected"})

\* the notification a join or leave is forwarded as
NoticeOf(c) ==
    ParticipantNotice(IF c.kind = "ParticipantConnected"
                      THEN "participant_joined" ELSE "participant_left", c.arg)

\* the participants whose most recent notification was a join
LastJoined ==
    {p \in Participants :
        \E i \in 1..Len(JoinLeaves) :
            /\ JoinLeaves[i].arg = p
            /\ JoinLeaves[i].kind = "ParticipantConnected"
            /\ \A j \in (i + 1)..Len(JoinLeaves) : JoinLeaves[j].arg # p}

\* C33: the participant records mirror the join/leave notifications: after
\* every sequence of participant-joined and participant-left commands the
\* participant map holds exactly the participants whose most recent
\* notification was a join, every join and leave was forwarded as one
\* participant_joined / participant_left notification, in order, and when a
\* participant leaves its remote cursor is removed, the others' are kept.
C33_ParticipantsMirrorNotifications ==
    /\ [](/\ participants = LastJoined
          /\ sent = [i \in 1..Len(JoinLeaves) |-> NoticeOf(JoinLeaves[i])])
    /\ [][Finishes("ParticipantDisconnected") =>
              remote_cursors' = remote_cursors \ {current.arg}]_vars

\* p1 joined, moved its cursor and left: no record and no cursor of it is
\* left, and both notifications were sent
C33_Witness ==
    /\ sent = <<"participant_joined:p1", "participant_left:p1">>
    /\ participants = {}
    /\ remote_cursors = {}
    /\ \E i, j \in 1..Len(processed) :
          /\ i < j
          /\ processed[i].kind = "RemoteCursorPosition" /\ processed[i].arg = "p1"
          /\ processed[j].kind = "ParticipantDisconnected" /\ processed[j].arg = "p1"

====
